---- MODULE Spec2Model ----
(***************************************************************************)
(* Model of the evaluation engine of genQA-eval:                           *)
(*   - the relational store tables evals / eval_chunks and the statement   *)
(*     level commit discipline of DB.execute (src/db/db.py);               *)
(*   - RAGEvalService.save_evaluation_to_db, generate_and_evaluate,        *)
(*     _emit_progress and batch_evaluate                                   *)
(*     (src/services/rag_eval_service.py);                                 *)
(*   - the judged scores of evaluate_rag (src/metrics/rag_evaluator.py);   *)
(*   - the in-flight registry of run_single_evaluation                     *)
(*     (src/handlers/evals_handler.py);                                    *)
(*   - CustomRetryTransport.handle_async_request (src/llm/openai_llm.py);  *)
(*   - the lexical metrics of score_texts (src/metrics/text_metrics.py).   *)
(***************************************************************************)
EXTENDS Integers, Sequences, FiniteSets, TLC

\* ------------------------------------------------------------------------
\* Bounds of the model
\* ------------------------------------------------------------------------
MaxSaves == 2
MaxChunks == 2
MaxTasks == 3
MaxLiveTasks == 2

\* ------------------------------------------------------------------------
\* Value universes
\* ------------------------------------------------------------------------
RunIds == {"r1", "r2"}
QaIds == {"q1", "q2"}
\* a QA pair of another project than the tests'
ForeignQaIds == {"q3"}
\* chunk ids a retrieval can return
ChunkIds == {"c1", "c2"}
\* rows of the projects, tests, config and sources tables
ProjectIds == {"p1", "p2"}
TestIds == {"t1", "t2"}
ConfigIds == {"k1", "k2"}
SourceIds == {"s1", "s2"}
\* sources.test_id of a source stored without a test (NULL)
NoTest == "none"
\* column test_runs.test_id of each run
test_id_of_run == [r \in RunIds |-> IF r = "r1" THEN "t1" ELSE "t2"]
\* column config.test_id of each config row: one config per test
test_id_of_config == [k \in ConfigIds |-> IF k = "k1" THEN "t1" ELSE "t2"]
\* column test_runs.config_id of each run: the config of its test
config_id_of_run == [r \in RunIds |-> IF r = "r1" THEN "k1" ELSE "k2"]
\* column chunks.source_id of each chunk
source_id_of_chunk == [c \in ChunkIds |-> IF c = "c1" THEN "s1" ELSE "s2"]
\* column tests.project_id of each test
project_id_of_test == [t \in TestIds |-> "p1"]
\* column question_answer_pairs.project_id of each QA pair
project_id_of_qa == [q \in QaIds \cup ForeignQaIds |-> IF q \in QaIds THEN "p1" ELSE "p2"]
\* column sources.test_id of each source: s1 was stored for test t1
\* (tests_handler), s2 without a test (text_extraction_service)
test_id_of_source == [s \in SourceIds |-> IF s = "s1" THEN "t1" ELSE NoTest]
NoEval == 0
NoError == ""

ChunkIdSeqs == UNION {[1..n -> ChunkIds] : n \in 0..MaxChunks}

VARIABLES
    evals,                  \* table evals: set of rows [id, test_run_id, qa_pair_id]
    eval_chunks,            \* table eval_chunks: set of <<eval_id, chunk_id>>
    test_runs,              \* ids present in table test_runs
    question_answer_pairs,  \* ids present in table question_answer_pairs
    chunks,                 \* ids present in table chunks
    projects,               \* ids present in table projects
    tests,                  \* ids present in table tests
    config,                 \* ids present in table config
    sources,                \* ids present in table sources
    nSaves,                 \* number of save_evaluation_to_db calls so far
    lastSave,               \* the most recent save_evaluation_to_db call and its outcome
    save_failed,            \* some statement of some save has failed
    lastSaved,              \* per key: eval_id returned by the latest successful save
    pc,                     \* position of the current generate_and_evaluate call
    cur,                    \* its (test_run_id, qa_pair_id)
    context_results,        \* chunk ids of the contexts it retrieved, in rank order
    events,                 \* progress events it has emitted, in order
    raised,                 \* the error it raised to its caller, if any
    result,                 \* the eval_id it returned, if any
    llm_calls,              \* requests it sent to the generation model
    judge_calls,            \* calls of the judge client's create it made
    db_at_call,             \* <<evals, eval_chunks>> when the call started
    cb_failed,              \* its progress callback has raised on some event
    active_evaluations,     \* registry _active_evaluations: run -> (qa -> task)
    tasks,                  \* task id -> [run, qa, state] of each created task
    lastResp,               \* HTTP status of the latest trigger and the task it created
    rpc,                    \* position of the current handle_async_request call
    transport,              \* the transport class handling it
    attempt,                \* its loop variable attempt
    sleeps,                 \* durations it has slept, in order
    outcomes,               \* outcome of each underlying request it has made
    response,               \* what it returned or raised
    batch_pc,               \* position of the current batch_evaluate call
    batch_run,              \* its test_run_id
    qa_pairs,               \* its qa_pairs, as the sequence of their ids
    batch_i,                \* its loop counter i (0 before the first item)
    batch_results,          \* its list results
    judge_pc,               \* position of the evaluation's path through the service
    evaluation,             \* the RAGEvaluation the judge returned
    llm_judged_metrics,     \* the scores dict built from it
    stored_metrics,         \* the llm-judged columns of the record its save returned
    returned_metrics,       \* result['llm_judged_metrics'] handed to the caller
    gen_pc,                 \* position of the current generate_answer call
    prompt_template,        \* its argument prompt_template
    gen_error,              \* the key its KeyError names, if it raised one
    sent_prompt,            \* the prompt it sent to llm.generate, if any
    metric_pc,              \* position of the current score_texts call
    candidate,              \* its argument candidate
    references,             \* its argument references, a list of strings
    scores                  \* the dict it returned

dbVars == <<evals, eval_chunks, test_runs, question_answer_pairs, chunks,
            projects, tests, config, sources>>
\* the tables save_evaluation_to_db does not write to
parentVars == <<test_runs, question_answer_pairs, chunks, projects, tests,
                config, sources>>
saveVars == <<nSaves, lastSave, save_failed, lastSaved>>
pipeVars == <<pc, cur, context_results, events, raised, result, llm_calls,
              judge_calls, db_at_call, cb_failed>>
regVars == <<active_evaluations, tasks, lastResp>>
retryVars == <<rpc, transport, attempt, sleeps, outcomes, response>>
batchVars == <<batch_pc, batch_run, qa_pairs, batch_i, batch_results>>
judgeVars == <<judge_pc, evaluation, llm_judged_metrics, stored_metrics, returned_metrics>>
genVars == <<gen_pc, prompt_template, gen_error, sent_prompt>>
metricVars == <<metric_pc, candidate, references, scores>>
vars == <<evals, eval_chunks, test_runs, question_answer_pairs, chunks,
          projects, tests, config, sources,
          nSaves, lastSave, save_failed, lastSaved,
          pc, cur, context_results, events, raised, result, llm_calls,
          judge_calls, db_at_call, cb_failed,
          active_evaluations, tasks, lastResp,
          rpc, transport, attempt, sleeps, outcomes, response,
          batch_pc, batch_run, qa_pairs, batch_i, batch_results,
          judge_pc, evaluation, llm_judged_metrics, stored_metrics,
          returned_metrics,
          gen_pc, prompt_template, gen_error, sent_prompt,
          metric_pc, candidate, references, scores>>

Keys == RunIds \X QaIds

\* ------------------------------------------------------------------------
\* Relational store (src/db/db.py)
\* ------------------------------------------------------------------------
EvalRow(id, r, q) == [id |-> id, test_run_id |-> r, qa_pair_id |-> q]

RowsOf(ev, r, q) == {e \in ev : e.test_run_id = r /\ e.qa_pair_id = q}

LinksOf(ec, id) == {l \in ec : l[1] = id}

\* a DELETE whose WHERE clause names the run only
DeleteEvals_ByRunOnly(ev, r, q) == {e \in ev : e.test_run_id # r}

\* DELETE FROM evals WHERE test_run_id = ? AND qa_pair_id = ?
DeleteEvals(ev, r, q) == ev \ RowsOf(ev, r, q)

\* an eval_chunks table whose rows outlive the evals row they reference
CascadeEvalChunks_None(ec, ev) == ec

\* FOREIGN KEY (eval_id) REFERENCES evals(id) ON DELETE CASCADE
CascadeEvalChunks(ec, ev) == {l \in ec : \E e \in ev : e.id = l[1]}

\* FOREIGN KEY (chunk_id) REFERENCES chunks(id) ON DELETE CASCADE
CascadeChunkLinks(ec, ch) == {l \in ec : l[2] \in ch}

\* constraints checked by INSERT INTO evals: primary key, the two foreign
\* keys and the unique index idx_evals_run_qa_unique
InsertEvalOk(ev, id, r, q) ==
    /\ r \in test_runs
    /\ q \in question_answer_pairs
    /\ \A e \in ev : e.id # id
    /\ RowsOf(ev, r, q) = {}

\* constraints checked by INSERT INTO eval_chunks: primary key (eval_id,
\* chunk_id) and the foreign key to chunks(id)
InsertChunkOk(ec, id, c) ==
    /\ c \in chunks
    /\ <<id, c>> \notin ec

\* ------------------------------------------------------------------------
\* RAGEvalService.save_evaluation_to_db
\* Every statement goes through DB.execute, which commits it on success and
\* rolls back that statement alone on failure.  failAt = k > 0 makes the
\* k-th statement fail at the store level (1 = DELETE, 2 = INSERT evals,
\* 2 + i = the i-th INSERT eval_chunks); constraint violations fail too.
\* ------------------------------------------------------------------------
\* INSERT OR IGNORE: a link that violates a constraint is skipped
RECURSIVE LinkChunks_InsertOrIgnore(_, _, _, _, _)
LinkChunks_InsertOrIgnore(ec, id, chunk_ids, i, failAt) ==
    IF i > Len(chunk_ids) THEN [eval_chunks |-> ec, ok |-> TRUE]
    ELSE IF failAt = 2 + i
         THEN [eval_chunks |-> ec, ok |-> FALSE]
         ELSE LinkChunks_InsertOrIgnore(
                  IF InsertChunkOk(ec, id, chunk_ids[i])
                  THEN ec \cup {<<id, chunk_ids[i]>>} ELSE ec,
                  id, chunk_ids, i + 1, failAt)

RECURSIVE LinkChunks(_, _, _, _, _)
LinkChunks(ec, id, chunk_ids, i, failAt) ==
    IF i > Len(chunk_ids) THEN [eval_chunks |-> ec, ok |-> TRUE]
    ELSE IF failAt = 2 + i \/ ~InsertChunkOk(ec, id, chunk_ids[i])
         THEN [eval_chunks |-> ec, ok |-> FALSE]
         ELSE LinkChunks(ec \cup {<<id, chunk_ids[i]>>}, id, chunk_ids, i + 1, failAt)

save_evaluation_to_db(ev, ec, r, q, chunk_ids, newId, failAt) ==
    IF failAt = 1
    THEN [evals |-> ev, eval_chunks |-> ec, ok |-> FALSE, eval_id |-> NoEval]
    ELSE
      LET ev1 == DeleteEvals(ev, r, q)
          ec1 == CascadeEvalChunks(ec, ev1)
      IN IF failAt = 2 \/ ~InsertEvalOk(ev1, newId, r, q)
         THEN [evals |-> ev1, eval_chunks |-> ec1, ok |-> FALSE, eval_id |-> NoEval]
         ELSE
           LET ev2 == ev1 \cup {EvalRow(newId, r, q)}
               lk == LinkChunks(ec1, newId, chunk_ids, 1, failAt)
           IN [evals |-> ev2, eval_chunks |-> lk.eval_chunks, ok |-> lk.ok,
               eval_id |-> IF lk.ok THEN newId ELSE NoEval]

\* uuid.uuid4(): an identifier no earlier call has used
FreshEvalId == nSaves + 1

NoSave == [run |-> "none", qa |-> "none", ok |-> TRUE, eval_id |-> NoEval]

\* bookkeeping of one call of save_evaluation_to_db with outcome res
RecordSave(r, q, chunk_ids, res) ==
    /\ nSaves' = nSaves + 1
    /\ lastSave' = [run |-> r, qa |-> q, ok |-> res.ok, eval_id |-> res.eval_id]
    /\ save_failed' = (save_failed \/ ~res.ok)
    /\ lastSaved' = IF res.ok THEN [lastSaved EXCEPT ![<<r, q>>] = res.eval_id]
                    ELSE lastSaved

\* a direct call of save_evaluation_to_db
SaveCall(r, q, chunk_ids, failAt) ==
    /\ nSaves < MaxSaves
    /\ LET res == save_evaluation_to_db(evals, eval_chunks, r, q, chunk_ids,
                                        FreshEvalId, failAt)
       IN /\ evals' = res.evals
          /\ eval_chunks' = res.eval_chunks
          /\ RecordSave(r, q, chunk_ids, res)
    /\ UNCHANGED parentVars
    /\ UNCHANGED <<pipeVars, regVars, retryVars, batchVars, judgeVars, genVars, metricVars>>

\* a chunk id that a retrieval returns and the chunks table does not hold
UnknownChunk == "cX"

\* what the save of an evaluation run by a task or a judged call meets, as
\* <<chunk_ids, failAt>>: the contexts <<c1>> on a store that is healthy or
\* raises on the DELETE, the INSERT of the row or the INSERT of the link,
\* the contexts <<c1, c2>> on a store that is healthy or raises on the
\* INSERT of the second link, and, on a healthy store, a repeated and an
\* unknown chunk id
RunSaveInputs ==
    {<<<<"c1">>, failAt>> : failAt \in 0..3}
        \cup {<<<<"c1", "c2">>, 0>>, <<<<"c1", "c2">>, 4>>}
        \cup {<<<<"c1", "c1">>, 0>>, <<<<UnknownChunk>>, 0>>}

InitDb ==
    /\ evals = {}
    /\ eval_chunks = {}
    /\ test_runs = RunIds
    /\ question_answer_pairs = QaIds \cup ForeignQaIds
    /\ chunks = ChunkIds
    /\ projects = ProjectIds
    /\ tests = TestIds
    /\ config = ConfigIds
    /\ sources = SourceIds

InitSaveHist ==
    /\ nSaves = 0
    /\ lastSave = NoSave
    /\ save_failed = FALSE
    /\ lastSaved = [k \in Keys |-> NoEval]

InitPipe ==
    /\ pc = "idle"
    /\ cur = <<"none", "none">>
    /\ context_results = <<>>
    /\ events = <<>>
    /\ raised = NoError
    /\ result = NoEval
    /\ llm_calls = 0
    /\ judge_calls = 0
    /\ db_at_call = <<{}, {}>>
    /\ cb_failed = FALSE

InitReg ==
    /\ active_evaluations = <<>>
    /\ tasks = <<>>
    /\ lastResp = [status |-> 0, task |-> 0]

\* an outcome of the underlying request: a response status or an exception
Resp(status) == [status |-> status, exc |-> ""]
Exc(name) == [status |-> 0, exc |-> name]
NoOutcome == [status |-> 0, exc |-> ""]

InitRetry ==
    /\ rpc = "idle"
    /\ transport = "openai_llm"
    /\ attempt = 0
    /\ sleeps = <<>>
    /\ outcomes = <<>>
    /\ response = NoOutcome

InitBatch ==
    /\ batch_pc = "idle"
    /\ batch_run = "none"
    /\ qa_pairs = <<>>
    /\ batch_i = 0
    /\ batch_results = <<>>

\* numbers that need not be whole are kept as fractions <<numerator,
\* denominator>>
NoEvaluation == [answer_relevance |-> "none", context_relevance |-> "none",
                 groundedness |-> "none", overall_score |-> <<0, 1>>]
NoMetrics == [answer_relevance |-> 0, context_relevance |-> 0,
              groundedness |-> 0, llm_judged_overall |-> <<0, 1>>]

InitJudge ==
    /\ judge_pc = "idle"
    /\ evaluation = NoEvaluation
    /\ llm_judged_metrics = NoMetrics
    /\ stored_metrics = NoMetrics
    /\ returned_metrics = NoMetrics

\* a prompt template: whether the string is empty, and the placeholders it
\* contains, each with the number of braces around its name
Template(names1, names2) ==
    [empty |-> FALSE,
     refs |-> {<<n, 1>> : n \in names1} \cup {<<n, 2>> : n \in names2}]
EmptyTemplate == [empty |-> TRUE, refs |-> {}]
NoPrompt == {"none"}

InitGen ==
    /\ gen_pc = "idle"
    /\ prompt_template = EmptyTemplate
    /\ gen_error = NoError
    /\ sent_prompt = NoPrompt

\* the dict of score_texts before the call returns
NoScores == [BLEU |-> "none"]

InitMetric ==
    /\ metric_pc = "idle"
    /\ candidate = <<>>
    /\ references = <<>>
    /\ scores = NoScores

InitSave == InitDb /\ InitSaveHist /\ InitPipe /\ InitReg /\ InitRetry
    /\ InitBatch /\ InitJudge /\ InitGen /\ InitMetric

NextSave ==
    \E r \in RunIds, q \in QaIds, chunk_ids \in ChunkIdSeqs, failAt \in 0..(2 + MaxChunks) :
        SaveCall(r, q, chunk_ids, failAt)

SpecSave == InitSave /\ [][NextSave]_vars

\* ------------------------------------------------------------------------
\* RAGEvalService.generate_and_evaluate
\* One action per stage; a stage action includes the events the stage emits
\* and, when the stage raises, the handler of the enclosing try (the failed
\* event and the re-raise).
\* ------------------------------------------------------------------------
\* the six stages in pipeline order
StageOrder == <<"started", "contexts_retrieved", "answer_generated",
                "lexical_metrics_calculated", "llm_metrics_calculated", "saved">>

Event(stage, status, data, error) ==
    [stage |-> stage, status |-> status, data |-> data, error |-> error]

\* one result of VectorDb.search_similar: chunk id and metadata content
SearchResult(id, content) == [id |-> id, content |-> content]
SearchResults == {SearchResult(id, c) : id \in ChunkIds, c \in {"", "text"}}
SearchResultSeqs == UNION {[1..n -> SearchResults] : n \in 0..MaxChunks}

\* retrieve_contexts: keep the results whose metadata has non-empty content
RECURSIVE retrieve_contexts(_)
retrieve_contexts(results) ==
    IF results = <<>> THEN <<>>
    ELSE IF Head(results).content # ""
         THEN <<Head(results).id>> \o retrieve_contexts(Tail(results))
         ELSE retrieve_contexts(Tail(results))

\* placeholders a prompt template references; str.format raises KeyError
\* exactly when a referenced name is not in template_values
TemplateValues == {"contexts", "chunks", "query", "question"}
PromptTemplates == {{"contexts", "query"}, {"chunks", "question"},
                    {"contexts", "query", "answer"}}
FormatOk(template) == template \subseteq TemplateValues

\* a zero-context check that never fires
NoContexts_Never(ctx) == FALSE

\* if not context_results
NoContexts(ctx) == ctx = <<>>

\* a handler that emits the failed event twice
FailWith_Twice(evs, e) ==
    /\ events' = Append(Append(evs, Event("failed", "failed", 0, e)),
                        Event("failed", "failed", 0, e))
    /\ raised' = e
    /\ pc' = "raised"

\* a handler whose failed event carries a fixed text instead of str(e)
FailWith_GenericMessage(evs, e) ==
    /\ events' = Append(evs, Event("failed", "failed", 0, "evaluation failed"))
    /\ raised' = e
    /\ pc' = "raised"

\* except Exception as e: emit the failed event carrying str(e), re-raise
FailWith(evs, e) ==
    /\ events' = Append(evs, Event("failed", "failed", 0, e))
    /\ raised' = e
    /\ pc' = "raised"

\* outcome of one invocation of the injected progress callback: it returns,
\* it raises an Exception, or it raises a BaseException that is not an
\* Exception (asyncio.CancelledError, KeyboardInterrupt, SystemExit)
CallbackOutcomes == {"ok", "raises", "raises_base"}

\* an _emit_progress that lets every exception of the callback escape
EmitRaises_Propagate(cb) == cb \in {"raises", "raises_base"}

\* _emit_progress: try: callback(event) / except Exception: logger.warning;
\* only an exception that is not an Exception leaves _emit_progress
EmitRaises(cb) == cb = "raises_base"

\* the only trace of a callback raising an Exception: the warning logged by
\* _emit_progress
LogCallback(before, cb) == cb_failed' = (before \/ cb = "raises")

\* what the caller of generate_and_evaluate sees of an exception of the
\* callback that left _emit_progress
CallbackError(cb) == IF cb = "raises_base" THEN "cancelled" ELSE "callback_error"

\* the exception leaves generate_and_evaluate without a failed event: it
\* passes by `except Exception`, or it was raised by the handler's own
\* emission
Escape(evs, cb) ==
    /\ events' = evs
    /\ raised' = CallbackError(cb)
    /\ pc' = "raised"

\* an emission inside the try block raised: a BaseException passes by the
\* handler; an Exception enters it, and its emission of the failed event
\* raises in turn
EmitEscaped(evs, cb) ==
    IF cb = "raises_base"
    THEN Escape(evs, cb)
    ELSE Escape(Append(evs, Event("failed", "failed", 0, CallbackError(cb))), cb)

\* after a stage handed the last event of evs to the callback: go on at
\* nextpc, or unwind if _emit_progress raised
AfterEmit(evs, cb, nextpc) ==
    IF EmitRaises(cb)
    THEN EmitEscaped(evs, cb)
    ELSE /\ events' = evs
         /\ pc' = nextpc
         /\ UNCHANGED raised

\* a stage raised e: the handler hands the failed event to the callback and
\* re-raises e, unless that emission itself raises
Fail(evs, e, cb) ==
    IF EmitRaises(cb)
    THEN Escape(Append(evs, Event("failed", "failed", 0, e)), cb)
    ELSE FailWith(evs, e)

\* entry of generate_and_evaluate: fresh locals and the started event
EnterGenerateAndEvaluate(r, q, cb) ==
    /\ cur' = <<r, q>>
    /\ IF EmitRaises(cb)
       THEN EmitEscaped(<<Event("started", "running", 0, NoError)>>, cb)
       ELSE /\ pc' = "retrieve"
            /\ events' = <<Event("started", "running", 0, NoError)>>
            /\ raised' = NoError
    /\ context_results' = <<>>
    /\ result' = NoEval
    /\ llm_calls' = 0
    /\ judge_calls' = 0
    /\ db_at_call' = <<evals, eval_chunks>>

\* a direct call of generate_and_evaluate, once the previous one has ended
CallGenerateAndEvaluate(r, q, cb) ==
    /\ pc \in {"idle", "returned", "raised"}
    /\ nSaves < MaxSaves
    /\ EnterGenerateAndEvaluate(r, q, cb)
    /\ UNCHANGED <<dbVars, saveVars, regVars, retryVars, batchVars, judgeVars, genVars, metricVars>>

\* Step 1: embed the query, search, filter, and the awaited emission of
\* contexts_retrieved/running; the zero-context check follows that await
RetrieveStage(outcome, results, cb) ==
    /\ pc = "retrieve"
    /\ IF outcome # "ok"
       THEN /\ Fail(events, outcome, cb)
            /\ UNCHANGED context_results
       ELSE LET ctx == retrieve_contexts(results)
                evs == Append(events,
                         Event("contexts_retrieved", "running", Len(ctx), NoError))
            IN /\ context_results' = ctx
               /\ AfterEmit(evs, cb,
                            IF NoContexts(ctx) THEN "no_contexts" ELSE "generate")
    /\ UNCHANGED <<cur, result, llm_calls, judge_calls, db_at_call>>
    /\ UNCHANGED <<dbVars, saveVars, regVars, retryVars, batchVars, judgeVars, genVars, metricVars>>

\* if not context_results: the awaited emission of contexts_retrieved/failed
NoContextsStage(cb) ==
    /\ pc = "no_contexts"
    /\ AfterEmit(Append(events,
                   Event("contexts_retrieved", "failed", 0, "no_contexts")),
                 cb, "no_contexts_raise")
    /\ UNCHANGED <<cur, context_results, result, llm_calls, judge_calls,
                   db_at_call>>
    /\ UNCHANGED <<dbVars, saveVars, regVars, retryVars, batchVars, judgeVars, genVars, metricVars>>

\* raise ValueError("No contexts found in collection ..."), caught by
\* the handler of the enclosing try
NoContextsRaise(cb) ==
    /\ pc = "no_contexts_raise"
    /\ Fail(events, "no_contexts", cb)
    /\ UNCHANGED <<cur, context_results, result, llm_calls, judge_calls,
                   db_at_call>>
    /\ UNCHANGED <<dbVars, saveVars, regVars, retryVars, batchVars, judgeVars, genVars, metricVars>>

\* Step 2: generate_answer: render the template, then call the model
GenerateStage(template, outcome, cb) ==
    /\ pc = "generate"
    /\ IF ~FormatOk(template)
       THEN /\ Fail(events, "missing_placeholder", cb)
            /\ UNCHANGED llm_calls
       ELSE /\ llm_calls' = llm_calls + 1
            /\ IF outcome # "ok"
               THEN Fail(events, outcome, cb)
               ELSE AfterEmit(Append(events,
                                Event("answer_generated", "running", 0, NoError)),
                              cb, "lexical")
    /\ UNCHANGED <<cur, context_results, result, judge_calls, db_at_call>>
    /\ UNCHANGED <<dbVars, saveVars, regVars, retryVars, batchVars, judgeVars, genVars, metricVars>>

\* Step 3: calculate_lexical_metrics (pure, no I/O)
LexicalStage(cb) ==
    /\ pc = "lexical"
    /\ AfterEmit(Append(events,
                   Event("lexical_metrics_calculated", "running", 0, NoError)),
                 cb, "judge")
    /\ UNCHANGED <<cur, context_results, result, llm_calls, judge_calls,
                   db_at_call>>
    /\ UNCHANGED <<dbVars, saveVars, regVars, retryVars, batchVars, judgeVars, genVars, metricVars>>

\* an evaluate_rag that calls create again after a response of the wrong
\* structure
CreateCalls_RetryMalformed(outcome) ==
    CASE outcome = "no_api_key" -> 0
      [] outcome = "malformed_judge_response" -> 2
      [] OTHER -> 1

\* evaluate_rag: the number of calls of client.chat.completions.create.
\* _get_client() raises before any call when OPENAI_API_KEY is not set;
\* otherwise create is called once, outside any loop, and what it raises
\* leaves evaluate_rag. The requests the client library sends within one
\* call are the library's and are not counted here.
CreateCalls(outcome) ==
    CASE outcome = "no_api_key" -> 0
      [] OTHER -> 1

\* Step 4: calculate_llm_judged_metrics: evaluate_rag in a worker thread
JudgeStage(outcome, cb) ==
    /\ pc = "judge"
    /\ judge_calls' = judge_calls + CreateCalls(outcome)
    /\ IF outcome # "ok"
       THEN Fail(events, outcome, cb)
       ELSE AfterEmit(Append(events,
                        Event("llm_metrics_calculated", "running", 0, NoError)),
                      cb, "save")
    /\ UNCHANGED <<cur, context_results, result, llm_calls, db_at_call>>
    /\ UNCHANGED <<dbVars, saveVars, regVars, retryVars, batchVars, judgeVars, genVars, metricVars>>

\* Step 5: save_evaluation_to_db, then the saved/completed event
SaveStage(failAt, cb) ==
    /\ pc = "save"
    /\ LET res == save_evaluation_to_db(evals, eval_chunks, cur[1], cur[2],
                                        context_results, FreshEvalId, failAt)
       IN /\ evals' = res.evals
          /\ eval_chunks' = res.eval_chunks
          /\ RecordSave(cur[1], cur[2], context_results, res)
          /\ IF res.ok
             THEN /\ AfterEmit(Append(events,
                                 Event("saved", "completed", res.eval_id, NoError)),
                               cb, "returned")
                  /\ result' = IF EmitRaises(cb) THEN result ELSE res.eval_id
             ELSE /\ Fail(events, "db_error", cb)
                  /\ UNCHANGED result
    /\ UNCHANGED parentVars
    /\ UNCHANGED <<cur, context_results, llm_calls, judge_calls, db_at_call>>
    /\ UNCHANGED <<regVars, retryVars, batchVars, judgeVars, genVars, metricVars>>

RetrieveOutcomes == {"ok", "embed_error", "search_error"}
GenerateOutcomes == {"ok", "llm_error"}
JudgeOutcomes == {"ok", "no_api_key", "judge_error", "malformed_judge_response"}

Init == InitDb /\ InitSaveHist /\ InitPipe /\ InitReg /\ InitRetry
    /\ InitBatch /\ InitJudge /\ InitGen /\ InitMetric

\* generate_and_evaluate called with a progress callback that returns
\* normally
Next ==
    \/ \E r \in RunIds, q \in QaIds :
           CallGenerateAndEvaluate(r, q, "ok") /\ LogCallback(FALSE, "ok")
    \/ \E outcome \in RetrieveOutcomes, results \in SearchResultSeqs :
           RetrieveStage(outcome, results, "ok") /\ LogCallback(cb_failed, "ok")
    \/ NoContextsStage("ok") /\ LogCallback(cb_failed, "ok")
    \/ NoContextsRaise("ok") /\ LogCallback(cb_failed, "ok")
    \/ \E template \in PromptTemplates, outcome \in GenerateOutcomes :
           GenerateStage(template, outcome, "ok") /\ LogCallback(cb_failed, "ok")
    \/ LexicalStage("ok") /\ LogCallback(cb_failed, "ok")
    \/ \E outcome \in JudgeOutcomes :
           JudgeStage(outcome, "ok") /\ LogCallback(cb_failed, "ok")
    \/ \E failAt \in 0..(2 + MaxChunks) :
           SaveStage(failAt, "ok") /\ LogCallback(cb_failed, "ok")

Spec == Init /\ [][Next]_vars

\* search results of a small retrieval: none, or one chunk
SmallSearchResultSeqs == {<<>>, <<SearchResult("c1", "text")>>}

\* generate_and_evaluate called with a progress callback that may raise on
\* any event
NextCallback ==
    \/ \E r \in RunIds, q \in QaIds, cb \in CallbackOutcomes :
           CallGenerateAndEvaluate(r, q, cb) /\ LogCallback(FALSE, cb)
    \/ \E outcome \in RetrieveOutcomes, results \in SmallSearchResultSeqs,
          cb \in CallbackOutcomes :
           RetrieveStage(outcome, results, cb) /\ LogCallback(cb_failed, cb)
    \/ \E cb \in CallbackOutcomes : NoContextsStage(cb) /\ LogCallback(cb_failed, cb)
    \/ \E cb \in CallbackOutcomes : NoContextsRaise(cb) /\ LogCallback(cb_failed, cb)
    \/ \E template \in PromptTemplates, outcome \in GenerateOutcomes,
          cb \in CallbackOutcomes :
           GenerateStage(template, outcome, cb) /\ LogCallback(cb_failed, cb)
    \/ \E cb \in CallbackOutcomes : LexicalStage(cb) /\ LogCallback(cb_failed, cb)
    \/ \E outcome \in JudgeOutcomes, cb \in CallbackOutcomes :
           JudgeStage(outcome, cb) /\ LogCallback(cb_failed, cb)
    \/ \E failAt \in 0..(2 + MaxChunks), cb \in CallbackOutcomes :
           SaveStage(failAt, cb) /\ LogCallback(cb_failed, cb)

SpecCallback == Init /\ [][NextCallback]_vars

\* ------------------------------------------------------------------------
\* RAGEvalService.batch_evaluate
\* The loop body awaits generate_and_evaluate: BatchItem enters the call,
\* the stage actions above run it, BatchCollect resumes the loop with its
\* outcome.
\* ------------------------------------------------------------------------
\* the qa_pairs argument: a list of QA pairs, given by their ids
QaPairSeqs == UNION {[1..n -> QaIds] : n \in 0..MaxSaves}

\* {'qa_pair_id': ..., 'status': 'success', 'result': result}
SuccessResult(q, res) ==
    [qa_pair_id |-> q, status |-> "success", result |-> res, error |-> NoError]

\* {'qa_pair_id': ..., 'status': 'failed', 'error': str(e)}
FailedResult(q, e) ==
    [qa_pair_id |-> q, status |-> "failed", result |-> NoEval, error |-> e]

\* a loop that starts the call and goes on without awaiting it
AwaitDone_NoWait(p) == TRUE

\* result = await self.generate_and_evaluate(...): the loop resumes when the
\* call has returned or raised
AwaitDone(p) == p \in {"returned", "raised"}

\* a handler that re-raises the item's exception out of batch_evaluate
AfterItem_Abort(p) == IF p = "raised" THEN "raised" ELSE "loop"

\* except Exception: the failure is recorded and the for loop continues
AfterItem(p) == "loop"

\* results = []
CallBatchEvaluate(r, pairs) ==
    /\ batch_pc \in {"idle", "returned"}
    /\ pc \in {"idle", "returned", "raised"}
    /\ nSaves + Len(pairs) <= MaxSaves
    /\ batch_pc' = "loop"
    /\ batch_run' = r
    /\ qa_pairs' = pairs
    /\ batch_i' = 0
    /\ batch_results' = <<>>
    /\ UNCHANGED <<dbVars, saveVars, pipeVars, regVars, retryVars, judgeVars, genVars, metricVars>>

\* for i, qa_pair in enumerate(qa_pairs, 1): enter generate_and_evaluate; no
\* progress_callback is passed, so no callback can raise
BatchItem ==
    /\ batch_pc = "loop"
    /\ batch_i < Len(qa_pairs)
    /\ batch_i' = batch_i + 1
    /\ batch_pc' = "item"
    /\ EnterGenerateAndEvaluate(batch_run, qa_pairs[batch_i + 1], "ok")
    /\ LogCallback(FALSE, "ok")
    /\ UNCHANGED <<batch_run, qa_pairs, batch_results>>
    /\ UNCHANGED <<dbVars, saveVars, regVars, retryVars, judgeVars, genVars, metricVars>>

\* the await resumes: append the success or the failed entry
BatchCollect ==
    /\ batch_pc = "item"
    /\ AwaitDone(pc)
    /\ batch_results' =
           Append(batch_results,
                  IF pc = "returned"
                  THEN SuccessResult(qa_pairs[batch_i], result)
                  ELSE FailedResult(qa_pairs[batch_i], raised))
    /\ batch_pc' = AfterItem(pc)
    /\ UNCHANGED <<batch_run, qa_pairs, batch_i>>
    /\ UNCHANGED <<dbVars, saveVars, pipeVars, regVars, retryVars, judgeVars, genVars, metricVars>>

\* return results
BatchReturn ==
    /\ batch_pc = "loop"
    /\ batch_i = Len(qa_pairs)
    /\ batch_pc' = "returned"
    /\ UNCHANGED <<batch_run, qa_pairs, batch_i, batch_results>>
    /\ UNCHANGED <<dbVars, saveVars, pipeVars, regVars, retryVars, judgeVars, genVars, metricVars>>

InitBatchEvaluate == InitDb /\ InitSaveHist /\ InitPipe /\ InitReg /\ InitRetry
    /\ InitBatch /\ InitJudge /\ InitGen /\ InitMetric

NextBatch ==
    \/ \E r \in RunIds, pairs \in QaPairSeqs : CallBatchEvaluate(r, pairs)
    \/ BatchItem
    \/ \E outcome \in RetrieveOutcomes, results \in SmallSearchResultSeqs :
           RetrieveStage(outcome, results, "ok") /\ LogCallback(cb_failed, "ok")
    \/ NoContextsStage("ok") /\ LogCallback(cb_failed, "ok")
    \/ NoContextsRaise("ok") /\ LogCallback(cb_failed, "ok")
    \/ \E template \in PromptTemplates, outcome \in GenerateOutcomes :
           GenerateStage(template, outcome, "ok") /\ LogCallback(cb_failed, "ok")
    \/ LexicalStage("ok") /\ LogCallback(cb_failed, "ok")
    \/ \E outcome \in JudgeOutcomes :
           JudgeStage(outcome, "ok") /\ LogCallback(cb_failed, "ok")
    \/ \E failAt \in 0..(2 + MaxChunks) :
           SaveStage(failAt, "ok") /\ LogCallback(cb_failed, "ok")
    \/ BatchCollect
    \/ BatchReturn

SpecBatch == InitBatchEvaluate /\ [][NextBatch]_vars

\* ------------------------------------------------------------------------
\* The judged scores: RAGEvaluation, score_to_numeric
\* (src/metrics/rag_evaluator.py) and their way through
\* calculate_llm_judged_metrics, save_evaluation_to_db and the returned dict
\* ------------------------------------------------------------------------
\* class Score(str, Enum)
Scores == {"bad", "average", "good", "excellent"}

\* values the judge may put in RAGEvaluation.overall_score (a float the
\* response model only requires to be present): the thirds from 0 to 3, and
\* 2.67
OverallScores == {<<k, 3>> : k \in 0..9} \cup {<<267, 100>>}

\* the RAGEvaluation objects a judge response can parse to
Evaluations ==
    [answer_relevance : Scores, context_relevance : Scores,
     groundedness : Scores, overall_score : OverallScores]

\* score_to_numeric: bad 0.0, average 1.0, good 2.0, excellent 3.0
score_to_numeric(score) ==
    CASE score = "bad" -> 0
      [] score = "average" -> 1
      [] score = "good" -> 2
      [] score = "excellent" -> 3

\* calculate_llm_judged_metrics: the scores dict built from the evaluation
calculate_llm_judged_metrics(ev) ==
    [answer_relevance |-> score_to_numeric(ev.answer_relevance),
     context_relevance |-> score_to_numeric(ev.context_relevance),
     groundedness |-> score_to_numeric(ev.groundedness),
     llm_judged_overall |-> ev.overall_score]

\* Step 4 of generate_and_evaluate: the judge answers with ev
JudgeResponds(ev) ==
    /\ judge_pc \in {"idle", "returned", "failed"}
    /\ nSaves < MaxSaves
    /\ judge_pc' = "judged"
    /\ evaluation' = ev
    /\ llm_judged_metrics' = calculate_llm_judged_metrics(ev)
    /\ stored_metrics' = NoMetrics
    /\ returned_metrics' = NoMetrics
    /\ UNCHANGED <<dbVars, saveVars, pipeVars, regVars, retryVars, batchVars, genVars, metricVars>>

\* the key of the judged calls
JudgedKey == <<"r1", "q1">>

\* Step 5, save_evaluation_to_db: the DELETE of the key's rows, the INSERT
\* of the evals row, whose four llm-judged columns come from the dict, and
\* the eval_chunks links, in one synchronous step.  When a statement raises,
\* what the earlier statements wrote stays, the call emits 'failed' and
\* raises, and nothing is returned.
StoreMetrics(chunk_ids, failAt) ==
    /\ judge_pc = "judged"
    /\ LET res == save_evaluation_to_db(evals, eval_chunks, JudgedKey[1],
                                        JudgedKey[2], chunk_ids,
                                        FreshEvalId, failAt)
       IN /\ evals' = res.evals
          /\ eval_chunks' = res.eval_chunks
          /\ RecordSave(JudgedKey[1], JudgedKey[2], chunk_ids, res)
          /\ judge_pc' = IF res.ok THEN "saved" ELSE "failed"
          /\ stored_metrics' =
                 IF res.ok
                 THEN [answer_relevance |-> llm_judged_metrics.answer_relevance,
                       context_relevance |-> llm_judged_metrics.context_relevance,
                       groundedness |-> llm_judged_metrics.groundedness,
                       llm_judged_overall |-> llm_judged_metrics.llm_judged_overall]
                 ELSE stored_metrics
    /\ UNCHANGED <<evaluation, llm_judged_metrics, returned_metrics>>
    /\ UNCHANGED parentVars
    /\ UNCHANGED <<pipeVars, regVars, retryVars, batchVars, genVars, metricVars>>

\* return {..., 'llm_judged_metrics': llm_judged_metrics, ...}
ReturnMetrics ==
    /\ judge_pc = "saved"
    /\ judge_pc' = "returned"
    /\ returned_metrics' = llm_judged_metrics
    /\ UNCHANGED <<evaluation, llm_judged_metrics, stored_metrics>>
    /\ UNCHANGED <<dbVars, saveVars, pipeVars, regVars, retryVars, batchVars, genVars, metricVars>>

InitJudged == InitDb /\ InitSaveHist /\ InitPipe /\ InitReg /\ InitRetry
    /\ InitBatch /\ InitJudge /\ InitGen /\ InitMetric

NextJudged ==
    \/ \E ev \in Evaluations : JudgeResponds(ev)
    \/ \E i \in RunSaveInputs : StoreMetrics(i[1], i[2])
    \/ ReturnMetrics

SpecJudged == InitJudged /\ [][NextJudged]_vars

\* ------------------------------------------------------------------------
\* Duplicate-run protection (src/handlers/evals_handler.py)
\* ------------------------------------------------------------------------
\* Optional[int]: None is the empty sequence, a value n is <<n>>
None == <<>>
Some(n) == <<n>>
\* truth value of an Optional[int] under Python's "or"
Truthy(o) == o # None /\ o[1] # 0

\* config.top_k: INTEGER NOT NULL DEFAULT 10 CHECK (top_k >= 1)
ConfigTopK == 10
DefaultTopK == 10

\* top_k = data.top_k or config.get("top_k") or 10
EffectiveTopK(data_top_k) ==
    IF Truthy(data_top_k) THEN data_top_k[1]
    ELSE IF ConfigTopK # 0 THEN ConfigTopK ELSE DefaultTopK

\* asyncio.Task.done()
Done(t) == tasks[t].state \in {"done", "cleaned"}

\* _active_evaluations.get(run, {}).get(qa): the set holding the registered
\* task, empty when there is none
Registered(reg, r, q) ==
    IF r \in DOMAIN reg /\ q \in DOMAIN reg[r] THEN {reg[r][q]} ELSE {}

\* _register_evaluation_task: setdefault(run, {})[qa] = task
RegisterTask(reg, r, q, t) ==
    LET run_tasks == IF r \in DOMAIN reg THEN reg[r] ELSE <<>>
    IN [x \in DOMAIN reg \cup {r} |->
           IF x = r
           THEN [y \in DOMAIN run_tasks \cup {q} |-> IF y = q THEN t ELSE run_tasks[y]]
           ELSE reg[x]]

\* a done-callback that leaves the registry alone
CleanupRegistry_Keep(reg, r, q) == reg

\* _cleanup, registry part: pop the qa entry, drop the run when it is empty
CleanupRegistry(reg, r, q) ==
    IF r \notin DOMAIN reg \/ DOMAIN reg[r] = {}
    THEN reg
    ELSE LET run_entry == [y \in DOMAIN reg[r] \ {q} |-> reg[r][y]]
         IN IF DOMAIN run_entry = {}
            THEN [x \in DOMAIN reg \ {r} |-> reg[x]]
            ELSE [reg EXCEPT ![r] = run_entry]

\* a lookup that finds a run only as long as no task has been created
test_run_repo_get_by_id_UntilFirstTask(r) ==
    IF r \in test_runs /\ tasks = <<>> THEN {r} ELSE {}

\* TestRunRepo.get_by_id, which run_single_evaluation calls first and
\* src/repos/test_run_repo.py does not define: taken to behave like the
\* get_by_id of the other repositories, the row with that id or none
test_run_repo_get_by_id(r) == IF r \in test_runs THEN {r} ELSE {}

\* outcome of ModelFactory.get_llm and get_embedding_model for the model
\* names of the run's config row: both build a model, or one of them raises
\* ValueError for a name it does not support
FactoryOutcomes == {"ok", "value_error"}

\* status code with which run_single_evaluation answers.  The tests row and
\* the config row of a stored run exist, by the foreign keys of test_runs;
\* the runs of the model carry no prompt_id, so no prompt is looked up.  The
\* ValueError of the model factory, raised after the duplicate check, is not
\* caught by the handler and is answered with 500.
TriggerStatus(r, q, data_top_k, factory) ==
    IF test_run_repo_get_by_id(r) = {} THEN 404
    ELSE IF q \notin question_answer_pairs THEN 404
    ELSE IF project_id_of_qa[q] # project_id_of_test[test_id_of_run[r]] THEN 400
    ELSE IF EffectiveTopK(data_top_k) <= 0 THEN 400
    ELSE IF \E t \in Registered(active_evaluations, r, q) : ~Done(t) THEN 409
    ELSE IF factory # "ok" THEN 500
    ELSE 202

\* POST /evals/run: the handler runs without suspension from its lookups to
\* its return; on acceptance it creates the task and registers it
run_single_evaluation(r, q, data_top_k, factory) ==
    LET status == TriggerStatus(r, q, data_top_k, factory)
        t == Len(tasks) + 1
    IN IF status = 202
       THEN /\ Len(tasks) < MaxTasks
            /\ tasks' = Append(tasks, [run |-> r, qa |-> q, state |-> "queued"])
            /\ active_evaluations' = RegisterTask(active_evaluations, r, q, t)
            /\ lastResp' = [status |-> 202, task |-> t]
       ELSE /\ lastResp' = [status |-> status, task |-> 0]
            /\ UNCHANGED <<tasks, active_evaluations>>

Trigger(r, q, data_top_k, factory) ==
    /\ run_single_evaluation(r, q, data_top_k, factory)
    /\ UNCHANGED <<dbVars, saveVars, pipeVars, retryVars, batchVars, judgeVars, genVars, metricVars>>

\* a broadcast that may never return
BroadcastOutcomes_MayHang == {"returns", "raises", "hangs"}

\* evaluation_manager.broadcast_to_run and broadcast_to_test, awaited by
\* _broadcast_evaluation_event; handlers/websocket_handler.py does not define
\* evaluation_manager.  Taken to stream the message to the subscribers of
\* the run or test and then return, or to raise.
BroadcastOutcomes == {"returns", "raises"}

\* _broadcast_evaluation_event: await broadcast_to_run, then
\* broadcast_to_test; the second is reached only if the first returns
broadcast_evaluation_event(to_run, to_test) ==
    IF to_run # "returns" THEN to_run ELSE to_test

\* the ways one call of _broadcast_evaluation_event can end
BroadcastEvents ==
    {broadcast_evaluation_event(a, b) : a, b \in BroadcastOutcomes}

\* execute_evaluation after the broadcast it awaits in `state` ended as o.
\* The queued broadcast is outside the try block, so its exception ends the
\* coroutine; the running and completed broadcasts are inside it, so their
\* exception is caught and the error broadcast follows; the exception of the
\* error broadcast, raised in the handler, ends the coroutine.  A coroutine
\* that ends makes its task done.
AfterBroadcast(state, o) ==
    IF o = "hangs" THEN "suspended"
    ELSE CASE state = "queued" -> IF o = "returns" THEN "running" ELSE "done"
           [] state = "running" -> IF o = "returns" THEN "started" ELSE "error"
           [] state = "completed" -> IF o = "returns" THEN "done" ELSE "error"
           [] state = "error" -> "done"

\* task t is resumed from the status broadcast it awaits: queued, running,
\* completed or error
TaskBroadcast(t, o) ==
    /\ t \in DOMAIN tasks
    /\ tasks[t].state \in {"queued", "running", "completed", "error"}
    /\ tasks' = [tasks EXCEPT ![t].state = AfterBroadcast(tasks[t].state, o)]
    /\ UNCHANGED <<active_evaluations, lastResp, dbVars, saveVars, pipeVars, retryVars, batchVars, judgeVars, genVars, metricVars>>

\* what the external call of a stage of generate_and_evaluate can do
TaskStageOutcomes(state) ==
    CASE state = "retrieve" -> {"ok", "zero_contexts", "raises"}
      [] state \in {"generate", "judge"} -> {"ok", "raises"}
      [] OTHER -> {"ok"}

\* generate_and_evaluate as the task runs it, with progress_callback (a
\* broadcast) as its callback: the stage that follows `state`.  A stage that
\* raises hands the failed event to the callback and re-raises into the
\* except clause of execute_evaluation, which awaits the error broadcast.
\* An exception of the callback is swallowed by _emit_progress.
AfterStage(state, outcome, cb) ==
    IF cb = "hangs" THEN "suspended"
    ELSE IF outcome = "raises" THEN "error"
    ELSE CASE state = "started" -> "retrieve"
           [] state = "retrieve" ->
                  IF outcome = "zero_contexts" THEN "no_contexts" ELSE "generate"
           [] state = "no_contexts" -> "no_contexts_raise"
           [] state = "no_contexts_raise" -> "error"
           [] state = "generate" -> "lexical"
           [] state = "lexical" -> "judge"
           [] state = "judge" -> "save"

\* task t takes one stage of generate_and_evaluate that does not write to
\* the store, up to the awaited emission of its event
TaskStage(t, outcome, cb) ==
    /\ t \in DOMAIN tasks
    /\ tasks[t].state \in {"started", "retrieve", "no_contexts",
                           "no_contexts_raise", "generate", "lexical", "judge"}
    /\ outcome \in TaskStageOutcomes(tasks[t].state)
    /\ tasks' = [tasks EXCEPT ![t].state = AfterStage(tasks[t].state, outcome, cb)]
    /\ UNCHANGED <<active_evaluations, lastResp, dbVars, saveVars, pipeVars, retryVars, batchVars, judgeVars, genVars, metricVars>>

\* task t takes the save stage: save_evaluation_to_db on the retrieved
\* chunk_ids, one synchronous step whose statements can raise (failAt); a
\* raise leaves what the earlier statements wrote and is caught by
\* execute_evaluation; after a save that returned, the saved event is
\* emitted and the completed broadcast follows
TaskSave(t, chunk_ids, failAt, cb) ==
    /\ t \in DOMAIN tasks
    /\ tasks[t].state = "save"
    /\ LET res == save_evaluation_to_db(evals, eval_chunks, tasks[t].run,
                                        tasks[t].qa, chunk_ids,
                                        FreshEvalId, failAt)
       IN /\ evals' = res.evals
          /\ eval_chunks' = res.eval_chunks
          /\ RecordSave(tasks[t].run, tasks[t].qa, chunk_ids, res)
          /\ tasks' = [tasks EXCEPT ![t].state =
                          IF ~res.ok THEN "error"
                          ELSE IF cb = "hangs" THEN "suspended"
                          ELSE "completed"]
    /\ UNCHANGED parentVars
    /\ UNCHANGED <<active_evaluations, lastResp, pipeVars, retryVars, batchVars, judgeVars, genVars, metricVars>>

\* the steps of task t
TaskBroadcasts(t) == \E o \in BroadcastEvents : TaskBroadcast(t, o)
TaskStages(t) ==
    \E outcome \in {"ok", "zero_contexts", "raises"}, cb \in BroadcastEvents :
        TaskStage(t, outcome, cb)
TaskSaves(t) ==
    \E i \in RunSaveInputs, cb \in BroadcastEvents : TaskSave(t, i[1], i[2], cb)

\* the done-callback _cleanup of task t runs
Cleanup(t) ==
    /\ t \in DOMAIN tasks
    /\ tasks[t].state = "done"
    /\ tasks' = [tasks EXCEPT ![t].state = "cleaned"]
    /\ active_evaluations' = CleanupRegistry(active_evaluations, tasks[t].run, tasks[t].qa)
    /\ UNCHANGED <<lastResp, dbVars, saveVars, pipeVars, retryVars, batchVars, judgeVars, genVars, metricVars>>

\* (test_run_id, qa_pair_id) of the triggers that pass the lookups
TriggerKeys == {<<"r1", "q1">>}
\* and of those that do not: a run that does not exist, a QA pair of another
\* project and a QA pair that does not exist
RefusedKeys == {<<"r0", "q1">>, <<"r1", "q3">>, <<"r1", "q0">>}
TopKInputs == {None, Some(-1), Some(0), Some(3)}
\* the requests, <<test_run_id, qa_pair_id, top_k, factory>>, factory being
\* what the model factory does for the config of the run if it is reached
TriggerInputs ==
    {<<key[1], key[2], k, "ok">> : key \in TriggerKeys, k \in TopKInputs}
        \cup {<<key[1], key[2], k, "value_error">> :
                   key \in TriggerKeys, k \in {None, Some(-1)}}
        \cup {<<key[1], key[2], k, "ok">> : key \in RefusedKeys, k \in {None, Some(0)}}

TaskIds == 1..MaxTasks

InitRegistry == InitDb /\ InitSaveHist /\ InitPipe /\ InitReg /\ InitRetry
    /\ InitBatch /\ InitJudge /\ InitGen /\ InitMetric

NextRegistry ==
    \/ \E i \in TriggerInputs : Trigger(i[1], i[2], i[3], i[4])
    \/ \E t \in TaskIds : TaskBroadcasts(t)
    \/ \E t \in TaskIds : TaskStages(t)
    \/ \E t \in TaskIds : TaskSaves(t)
    \/ \E t \in TaskIds : Cleanup(t)

SpecRegistry == InitRegistry /\ [][NextRegistry]_vars

\* ------------------------------------------------------------------------
\* CustomRetryTransport.handle_async_request (src/llm/openai_llm.py,
\* src/llm/groq_llm.py, src/llm/openai_embeddings.py)
\* ------------------------------------------------------------------------
Transports == {"openai_llm", "groq_llm", "openai_embeddings"}

\* a schedule in which one transport kept the five-step list 2, 5, 15, 30, 70
BACKOFF_TIMES_FiveStep(tr) ==
    CASE tr = "openai_llm" -> <<2, 5, 15, 30, 70>>
      [] tr = "groq_llm" -> <<5, 20, 70>>
      [] tr = "openai_embeddings" -> <<5, 20, 70>>

\* class attribute BACKOFF_TIMES of each transport, in seconds
BACKOFF_TIMES(tr) ==
    CASE tr = "openai_llm" -> <<5, 20, 70>>
      [] tr = "groq_llm" -> <<5, 20, 70>>
      [] tr = "openai_embeddings" -> <<5, 20, 70>>

\* a retry limit that is one short of the schedule in one transport
max_retries_Two(tr) ==
    CASE tr = "openai_llm" -> 2
      [] tr = "groq_llm" -> 3
      [] tr = "openai_embeddings" -> 3

\* local max_retries of each transport
max_retries(tr) ==
    CASE tr = "openai_llm" -> 3
      [] tr = "groq_llm" -> 3
      [] tr = "openai_embeddings" -> 3

\* a backoff that always takes the first entry of the schedule
BackoffTime_First(tr, n) == BACKOFF_TIMES(tr)[1]

\* backoff_time = self.BACKOFF_TIMES[attempt] (Python indexes from 0)
BackoffTime(tr, n) == BACKOFF_TIMES(tr)[n + 1]

\* a status test that also retries client errors
RetryableStatus_Any4xx(status) == status >= 400

\* response.status_code == 429 or response.status_code >= 500
RetryableStatus(status) == status = 429 \/ status >= 500

\* an except clause that catches every exception for retry
RetryableExceptions_All ==
    {"ConnectTimeout", "ReadTimeout", "ConnectError", "ValueError"}

\* except (httpx.ConnectTimeout, httpx.ReadTimeout, httpx.ConnectError)
RetryableExceptions == {"ConnectTimeout", "ReadTimeout", "ConnectError"}

Outcomes == {Resp(200), Resp(404), Resp(429), Resp(500), Resp(503),
             Exc("ConnectTimeout"), Exc("ReadTimeout"), Exc("ConnectError"),
             Exc("ValueError")}

\* a request enters handle_async_request of transport tr
StartRequest(tr) ==
    /\ rpc \in {"idle", "returned", "raised"}
    /\ rpc' = "attempt"
    /\ transport' = tr
    /\ attempt' = 0
    /\ sleeps' = <<>>
    /\ outcomes' = <<>>
    /\ response' = NoOutcome
    /\ UNCHANGED <<dbVars, saveVars, pipeVars, regVars, batchVars, judgeVars, genVars, metricVars>>

\* one iteration of the for loop: the underlying request ends with outcome o;
\* the iteration sleeps and continues, returns the response, or raises
Attempt(o) ==
    /\ rpc = "attempt"
    /\ outcomes' = Append(outcomes, o)
    /\ IF /\ attempt < max_retries(transport)
          /\ \/ (o.exc = "" /\ RetryableStatus(o.status))
             \/ o.exc \in RetryableExceptions
       THEN /\ sleeps' = Append(sleeps, BackoffTime(transport, attempt))
            /\ attempt' = attempt + 1
            /\ UNCHANGED <<rpc, response>>
       ELSE /\ rpc' = IF o.exc = "" THEN "returned" ELSE "raised"
            /\ response' = o
            /\ UNCHANGED <<sleeps, attempt>>
    /\ UNCHANGED transport
    /\ UNCHANGED <<dbVars, saveVars, pipeVars, regVars, batchVars, judgeVars, genVars, metricVars>>

InitTransport == InitDb /\ InitSaveHist /\ InitPipe /\ InitReg /\ InitRetry
    /\ InitBatch /\ InitJudge /\ InitGen /\ InitMetric

NextTransport ==
    \/ \E tr \in Transports : StartRequest(tr)
    \/ \E o \in Outcomes : Attempt(o)

SpecTransport == InitTransport /\ [][NextTransport]_vars

\* ------------------------------------------------------------------------
\* RAGEvalService.generate_answer
\* ------------------------------------------------------------------------
\* the built-in template, used when the caller passes none or an empty one
DefaultTemplate == Template({"contexts", "query"}, {})

\* if not prompt_template: prompt_template = <built-in template>
EffectiveTemplate(t) == IF t.empty THEN DefaultTemplate ELSE t

\* the chain of str.replace calls: each of the four known names in double
\* braces becomes the same name in single braces
normalized_template(t) ==
    [t EXCEPT !.refs =
        {<<p[1], IF p[2] = 2 /\ p[1] \in TemplateValues THEN 1 ELSE p[2]>> :
             p \in t.refs}]

\* the names str.format looks up: those in single braces (a name in double
\* braces is an escaped literal)
FormatNames(t) == {p[1] : p \in {x \in t.refs : x[2] = 1}}

\* the key of the KeyError that str.format raises
MissingKey(t) == CHOOSE n \in FormatNames(t) \ TemplateValues : TRUE

\* template_values: both context names map to contexts_text, both query
\* names to query
TemplateValue(n) == IF n \in {"contexts", "chunks"} THEN "contexts_text"
                    ELSE "query"

\* the rendered prompt, as the set of values substituted into it
RenderedPrompt(t) == {TemplateValue(n) : n \in FormatNames(t)}

\* generate_answer(query, contexts, prompt_template): render, then call
\* llm.generate; outcome is what llm.generate does if it is called
generate_answer(template, outcome) ==
    /\ gen_pc \in {"idle", "returned", "raised"}
    /\ prompt_template' = template
    /\ LET normalized == normalized_template(EffectiveTemplate(template))
       IN IF ~FormatOk(FormatNames(normalized))
          THEN /\ gen_pc' = "raised"
               /\ gen_error' = MissingKey(normalized)
               /\ sent_prompt' = NoPrompt
          ELSE /\ sent_prompt' = RenderedPrompt(normalized)
               /\ IF outcome = "ok"
                  THEN gen_pc' = "returned" /\ gen_error' = NoError
                  ELSE gen_pc' = "raised" /\ gen_error' = outcome
    /\ UNCHANGED <<dbVars, saveVars, pipeVars, regVars, retryVars, batchVars,
                   judgeVars, metricVars>>

PlaceholderNames == {"contexts", "chunks", "query", "question", "answer"}
UiNames == {"chunks", "query"}
TemplateInputs ==
    {EmptyTemplate} \cup
    {Template(n1, n2) : n1 \in SUBSET PlaceholderNames, n2 \in SUBSET UiNames}

InitGenerate == InitDb /\ InitSaveHist /\ InitPipe /\ InitReg /\ InitRetry
    /\ InitBatch /\ InitJudge /\ InitGen /\ InitMetric

NextGenerate ==
    \E template \in TemplateInputs, outcome \in {"ok", "llm_error"} :
        generate_answer(template, outcome)

SpecGenerate == InitGenerate /\ [][NextGenerate]_vars

\* ------------------------------------------------------------------------
\* Deletion of the parents of an evals row (src/repos/qa_repo.py,
\* src/repos/test_repo.py, schema of src/db/db.py)
\* ------------------------------------------------------------------------
\* evals.test_run_id REFERENCES test_runs(id) ON DELETE CASCADE and
\* evals.qa_pair_id REFERENCES question_answer_pairs(id) ON DELETE CASCADE
CascadeEvals(ev, runs, qas) ==
    {e \in ev : e.test_run_id \in runs /\ e.qa_pair_id \in qas}

\* what the ON DELETE CASCADE clauses of the schema leave once a DELETE has
\* reduced the tables to prj, tst, cfg, src, qas and chk (app code never
\* deletes a test_runs row directly): tests go with their project; config
\* rows and the sources of a test with their test; test runs with their test
\* or their config; QA pairs with their project; chunks with their source;
\* evals rows with their run or QA pair; eval_chunks rows with their evals
\* row or their chunk
Cascade(prj, tst, cfg, src, qas, chk) ==
    LET tst2 == {t \in tst : project_id_of_test[t] \in prj}
        cfg2 == {k \in cfg : test_id_of_config[k] \in tst2}
        src2 == {x \in src : test_id_of_source[x] = NoTest
                                \/ test_id_of_source[x] \in tst2}
        run2 == {r \in test_runs : /\ test_id_of_run[r] \in tst2
                                   /\ config_id_of_run[r] \in cfg2}
        qas2 == {q \in qas : project_id_of_qa[q] \in prj}
        chk2 == {c \in chk : source_id_of_chunk[c] \in src2}
        ev2 == CascadeEvals(evals, run2, qas2)
    IN [projects |-> prj, tests |-> tst2, config |-> cfg2, sources |-> src2,
        test_runs |-> run2, question_answer_pairs |-> qas2, chunks |-> chk2,
        evals |-> ev2,
        eval_chunks |-> CascadeChunkLinks(CascadeEvalChunks(eval_chunks, ev2), chk2)]

\* the tables after a statement that leaves them as d
SetStore(d) ==
    /\ projects' = d.projects
    /\ tests' = d.tests
    /\ config' = d.config
    /\ sources' = d.sources
    /\ test_runs' = d.test_runs
    /\ question_answer_pairs' = d.question_answer_pairs
    /\ chunks' = d.chunks
    /\ evals' = d.evals
    /\ eval_chunks' = d.eval_chunks

\* a DELETE that leaves the given rows in the tables it names
DeleteCascade(prj, tst, cfg, src, qas, chk) ==
    SetStore(Cascade(prj, tst, cfg, src, qas, chk))

\* one statement through DB.execute: committed when it succeeds, rolled
\* back, leaving every table as it was, when it raises (ok = FALSE)
Statement(ok, effect) == IF ok THEN effect ELSE UNCHANGED dbVars

\* the variables outside the store
StoreFrame ==
    UNCHANGED <<saveVars, pipeVars, regVars, retryVars, batchVars, judgeVars,
                genVars, metricVars>>

\* QARepo.delete_by_id: DELETE FROM question_answer_pairs WHERE id = ?
delete_by_id(q, ok) ==
    /\ Statement(ok, DeleteCascade(projects, tests, config, sources,
                                   question_answer_pairs \ {q}, chunks))
    /\ StoreFrame

\* QARepo.delete_by_project_id:
\* DELETE FROM question_answer_pairs WHERE project_id = ?
delete_by_project_id(p, ok) ==
    /\ Statement(ok, DeleteCascade(projects, tests, config, sources,
                        {q \in question_answer_pairs : project_id_of_qa[q] # p},
                        chunks))
    /\ StoreFrame

\* ProjectRepo.delete_by_id: DELETE FROM projects WHERE id = ?
project_repo_delete_by_id(p, ok) ==
    /\ Statement(ok, DeleteCascade(projects \ {p}, tests, config, sources,
                                   question_answer_pairs, chunks))
    /\ StoreFrame

\* TestRepo.delete_by_id: DELETE FROM tests WHERE id = ?.  The DELETE FROM
\* sources WHERE test_id = ? that the handler delete_test issues next finds
\* nothing left: the sources of the test went with it.  A source without a
\* test, and its chunks, stay.
test_repo_delete_by_id(t, ok) ==
    /\ Statement(ok, DeleteCascade(projects, tests \ {t}, config, sources,
                                   question_answer_pairs, chunks))
    /\ StoreFrame

\* ConfigRepo.delete_by_test_id: DELETE FROM config WHERE test_id = ?
config_repo_delete_by_test_id(t, ok) ==
    /\ Statement(ok, DeleteCascade(projects, tests,
                                   {k \in config : test_id_of_config[k] # t},
                                   sources, question_answer_pairs, chunks))
    /\ StoreFrame

\* ChunkingService.delete_chunks_by_source:
\* DELETE FROM chunks WHERE source_id = ?
delete_chunks_by_source(s, ok) ==
    /\ Statement(ok, DeleteCascade(projects, tests, config, sources,
                                   question_answer_pairs,
                                   {c \in chunks : source_id_of_chunk[c] # s}))
    /\ StoreFrame

\* an INSERT of a row that is not stored: it raises, and changes nothing,
\* when a row its foreign keys reference is missing or the statement fails
Insert(table, id, parents_stored, ok) ==
    /\ id \notin table
    /\ table' = IF parents_stored /\ ok THEN table \cup {id} ELSE table

\* ProjectRepo.create: INSERT INTO projects
project_repo_create(p, ok) ==
    /\ Insert(projects, p, TRUE, ok)
    /\ UNCHANGED <<evals, eval_chunks, test_runs, question_answer_pairs, chunks,
                   tests, config, sources>>
    /\ StoreFrame

\* TestRepo.create: INSERT INTO tests
test_repo_create(t, ok) ==
    /\ Insert(tests, t, project_id_of_test[t] \in projects, ok)
    /\ UNCHANGED <<evals, eval_chunks, test_runs, question_answer_pairs, chunks,
                   projects, config, sources>>
    /\ StoreFrame

\* ConfigRepo.create: DELETE FROM config WHERE test_id = ?, which takes the
\* runs of the old config and their evals rows along, then INSERT INTO
\* config of a row with a fresh id; failAt = 1 makes the DELETE raise,
\* failAt = 2 the INSERT, which also raises when the test is not stored
config_repo_create(t, failAt) ==
    /\ IF failAt = 1
       THEN UNCHANGED dbVars
       ELSE LET k == CHOOSE c \in ConfigIds : test_id_of_config[c] = t
                d == Cascade(projects, tests,
                             {c \in config : test_id_of_config[c] # t},
                             sources, question_answer_pairs, chunks)
            IN SetStore(IF failAt = 0 /\ t \in tests
                        THEN [d EXCEPT !.config = d.config \cup {k}]
                        ELSE d)
    /\ StoreFrame

\* TestRunRepo.create: INSERT INTO test_runs (id, test_id, config_id,
\* prompt_id)
test_run_repo_create(r, ok) ==
    /\ Insert(test_runs, r,
              test_id_of_run[r] \in tests /\ config_id_of_run[r] \in config, ok)
    /\ UNCHANGED <<evals, eval_chunks, question_answer_pairs, chunks, projects,
                   tests, config, sources>>
    /\ StoreFrame

\* QARepo.create: INSERT INTO question_answer_pairs
qa_repo_create(q, ok) ==
    /\ Insert(question_answer_pairs, q, project_id_of_qa[q] \in projects, ok)
    /\ UNCHANGED <<evals, eval_chunks, test_runs, chunks, projects, tests,
                   config, sources>>
    /\ StoreFrame

\* INSERT INTO sources, with a test_id (tests_handler) or without
\* (TextExtractionService)
insert_source(x, ok) ==
    /\ Insert(sources, x,
              test_id_of_source[x] = NoTest \/ test_id_of_source[x] \in tests, ok)
    /\ UNCHANGED <<evals, eval_chunks, test_runs, question_answer_pairs, chunks,
                   projects, tests, config>>
    /\ StoreFrame

\* ChunkingService: INSERT INTO chunks
insert_chunk(c, ok) ==
    /\ Insert(chunks, c, source_id_of_chunk[c] \in sources, ok)
    /\ UNCHANGED <<evals, eval_chunks, test_runs, question_answer_pairs,
                   projects, tests, config, sources>>
    /\ StoreFrame

InitStore == InitDb /\ InitSaveHist /\ InitPipe /\ InitReg /\ InitRetry
    /\ InitBatch /\ InitJudge /\ InitGen /\ InitMetric

\* the keys under which the store is written: a run with records for two QA
\* pairs and a QA pair with records in two runs
StoreKeys == {<<"r1", "q1">>, <<"r1", "q2">>, <<"r2", "q1">>}

NextStore ==
    \/ \E key \in StoreKeys, i \in RunSaveInputs :
           SaveCall(key[1], key[2], i[1], i[2])
    \/ \E q \in QaIds \cup ForeignQaIds, ok \in BOOLEAN : delete_by_id(q, ok)
    \/ \E p \in ProjectIds, ok \in BOOLEAN : delete_by_project_id(p, ok)
    \/ \E p \in ProjectIds, ok \in BOOLEAN : project_repo_delete_by_id(p, ok)
    \/ \E t \in TestIds, ok \in BOOLEAN : test_repo_delete_by_id(t, ok)
    \/ \E t \in TestIds, ok \in BOOLEAN : config_repo_delete_by_test_id(t, ok)
    \/ \E x \in SourceIds, ok \in BOOLEAN : delete_chunks_by_source(x, ok)
    \/ \E p \in ProjectIds, ok \in BOOLEAN : project_repo_create(p, ok)
    \/ \E t \in TestIds, ok \in BOOLEAN : test_repo_create(t, ok)
    \/ \E t \in TestIds, failAt \in 0..2 : config_repo_create(t, failAt)
    \/ \E r \in RunIds, ok \in BOOLEAN : test_run_repo_create(r, ok)
    \/ \E q \in QaIds \cup ForeignQaIds, ok \in BOOLEAN : qa_repo_create(q, ok)
    \/ \E x \in SourceIds, ok \in BOOLEAN : insert_source(x, ok)
    \/ \E c \in ChunkIds, ok \in BOOLEAN : insert_chunk(c, ok)

SpecStore == InitStore /\ [][NextStore]_vars

\* ------------------------------------------------------------------------
\* Scheduling of the evaluation tasks
\* The event loop runs every ready callback, so a task that can take its
\* next step takes it: the external call or broadcast it awaits returns or
\* raises and resumes it (TaskBroadcasts, TaskStages, TaskSaves), and the
\* done-callback of a task that has ended, scheduled with call_soon, runs
\* (Cleanup).
\* ------------------------------------------------------------------------
TaskFairness ==
    \A t \in TaskIds :
        /\ WF_vars(TaskBroadcasts(t))
        /\ WF_vars(TaskStages(t))
        /\ WF_vars(TaskSaves(t))
        /\ WF_vars(Cleanup(t))

\* the triggers of one key, accepted or refused, as long as fewer than
\* MaxLiveTasks tasks were created
NextTasks ==
    \/ \E k \in {None, Some(-1)}, f \in FactoryOutcomes :
           Len(tasks) < MaxLiveTasks /\ Trigger("r1", "q1", k, f)
    \/ \E t \in TaskIds : TaskBroadcasts(t)
    \/ \E t \in TaskIds : TaskStages(t)
    \/ \E t \in TaskIds : TaskSaves(t)
    \/ \E t \in TaskIds : Cleanup(t)

SpecRegistryFair == InitRegistry /\ [][NextTasks]_vars /\ TaskFairness

\* ------------------------------------------------------------------------
\* Lexical metrics (src/metrics/text_metrics.py)
\* A string is a sequence of one-character strings; a token is a string.
\* A float that the code computes by division is kept as the fraction
\* <<numerator, denominator>> it divides, denominator positive.
\* ------------------------------------------------------------------------
MaxTextLen == 3
MaxSelfLen == 4

\* an article letter, a capital letter, a blank and a punctuation mark
Chars == {"a", "B", " ", "."}
Texts(n) == UNION {[1..k -> Chars] : k \in 0..n}

\* characters matched by \w and by \s
WordChars == {"a", "b", "B"}
SpaceChars == {" "}

\* str.casefold
casefold(text) == [i \in DOMAIN text |-> IF text[i] = "B" THEN "b" ELSE text[i]]

\* the words of text in order: its maximal runs of word characters; with
\* symbols, every other non-blank character is an item of its own
RECURSIVE Scan(_, _, _, _)
Scan(text, i, word, symbols) ==
    LET done == IF word = <<>> THEN <<>> ELSE <<word>>
    IN IF i > Len(text) THEN done
       ELSE IF text[i] \in WordChars
            THEN Scan(text, i + 1, Append(word, text[i]), symbols)
            ELSE done
                 \o (IF symbols /\ text[i] \notin SpaceChars
                     THEN <<<<text[i]>>>> ELSE <<>>)
                 \o Scan(text, i + 1, <<>>, symbols)

\* _WORD_RE.findall(text.casefold()) with _WORD_RE = \w+|\S
tokenize(text) == Scan(casefold(text), 1, <<>>, TRUE)

\* str.split()
split(text) == Scan(text, 1, <<>>, FALSE)

\* " ".join(words)
RECURSIVE join(_)
join(words) ==
    IF words = <<>> THEN <<>>
    ELSE IF Len(words) = 1 THEN words[1]
    ELSE words[1] \o <<" ">> \o join(Tail(words))

Articles == {<<"a">>, <<"a", "n">>, <<"t", "h", "e">>}

\* _normalize_for_em: casefold, punctuation to blanks, the articles as whole
\* words to blanks, runs of blanks to one blank, strip
normalize_for_em(text) ==
    LET folded == casefold(text)
        nopunct == [i \in DOMAIN folded |->
                       IF folded[i] \in WordChars \cup SpaceChars
                       THEN folded[i] ELSE " "]
    IN join(SelectSeq(split(nopunct), LAMBDA w : w \notin Articles))

Range(seq) == {seq[i] : i \in DOMAIN seq}
Max(x, y) == IF x >= y THEN x ELSE y
Min(x, y) == IF x <= y THEN x ELSE y
MaxOf(S) == IF S = {} THEN 0 ELSE CHOOSE m \in S : \A x \in S : x <= m
Abs(x) == IF x < 0 THEN -x ELSE x

\* sum(f.values())
RECURSIVE SumValues(_)
SumValues(f) ==
    IF DOMAIN f = {} THEN 0
    ELSE LET x == CHOOSE y \in DOMAIN f : TRUE
         IN f[x] + SumValues([y \in DOMAIN f \ {x} |-> f[y]])

\* Counter(seq)
Counter(seq) == [g \in Range(seq) |-> Cardinality({i \in DOMAIN seq : seq[i] = g})]
\* Counter.get(g, 0)
Get(counter, g) == IF g \in DOMAIN counter THEN counter[g] ELSE 0
\* Counter & Counter: the minimum of the two counts, positive counts only
Intersect(c1, c2) ==
    [g \in {h \in DOMAIN c1 : Get(c2, h) > 0} |-> Min(c1[g], c2[g])]

\* arithmetic of fractions
FMul(x, y) == <<x[1] * y[1], x[2] * y[2]>>
FAdd(x, y) == <<x[1] * y[2] + y[1] * x[2], x[2] * y[2]>>
FDiv(x, y) == <<x[1] * y[2], x[2] * y[1]>>
FGreater(x, y) == x[1] * y[2] > y[1] * x[2]
FZero == <<0, 1>>
FOne == <<1, 1>>

\* _ngrams: tokens[i:i+n] for i in range(len(tokens) - n + 1)
ngrams(tokens, n) ==
    [i \in 1..Max(0, Len(tokens) - n + 1) |-> SubSeq(tokens, i, i + n - 1)]

\* _clip_counts_across_refs
clip_counts_across_refs(cand, refs_ngrams) ==
    SumValues([g \in DOMAIN cand |->
                  Min(cand[g], MaxOf({Get(refs_ngrams[k], g) : k \in DOMAIN refs_ngrams}))])

\* _effective_ref_len: min(ref_lens, key=lambda rl: (abs(rl - c_len), rl))
effective_ref_len(c_len, ref_lens) ==
    CHOOSE rl \in Range(ref_lens) :
        \A o \in Range(ref_lens) :
            \/ Abs(rl - c_len) < Abs(o - c_len)
            \/ (Abs(rl - c_len) = Abs(o - c_len) /\ rl <= o)

\* a float the code computes with math.exp: e to the power of a fraction,
\* or 0.0
Exp(x) == [zero |-> FALSE, exponent |-> x]
ExpZero == [zero |-> TRUE, exponent |-> FZero]

\* _brevity_penalty
brevity_penalty(c_len, r_len) ==
    IF c_len = 0 THEN ExpZero
    ELSE IF c_len > r_len THEN Exp(FZero)
    ELSE Exp(<<c_len - r_len, c_len>>)

\* _lcs_length, inner loop over j with the rolling row dp (dp[j] of the code
\* is dp[j + 1] here) and the diagonal value prev
RECURSIVE lcs_row_LeftNeighbour(_, _, _, _, _)
\* an inner loop that extends the cell to the left on a match
lcs_row_LeftNeighbour(ai, b, dp, j, prev) ==
    IF j > Len(b) THEN dp
    ELSE LET tmp == dp[j + 1]
             cell == IF ai = b[j] THEN dp[j] + 1
                     ELSE IF dp[j + 1] >= dp[j] THEN dp[j + 1] ELSE dp[j]
         IN lcs_row_LeftNeighbour(ai, b, [dp EXCEPT ![j + 1] = cell], j + 1, tmp)

RECURSIVE lcs_row(_, _, _, _, _)
lcs_row(ai, b, dp, j, prev) ==
    IF j > Len(b) THEN dp
    ELSE LET tmp == dp[j + 1]
             cell == IF ai = b[j] THEN prev + 1
                     ELSE IF dp[j + 1] >= dp[j] THEN dp[j + 1] ELSE dp[j]
         IN lcs_row(ai, b, [dp EXCEPT ![j + 1] = cell], j + 1, tmp)

\* outer loop over i
RECURSIVE lcs_rows(_, _, _, _)
lcs_rows(a, b, dp, i) ==
    IF i > Len(a) THEN dp
    ELSE lcs_rows(a, b, lcs_row(a[i], b, dp, 1, 0), i + 1)

lcs_length(a, b) ==
    lcs_rows(a, b, [k \in 1..(Len(b) + 1) |-> 0], 1)[Len(b) + 1]

\* rouge_l, the loop over references from reference i on.  The comparison
\* f1 > best["f1"] is made on floats: values that differ as fractions
\* compare as the fractions do; two non-zero values that are equal as
\* fractions but come from different precision and recall are the results
\* of different float operations and can differ in the last bit, and
\* later_wins[i] says whether the one of reference i came out larger.
RECURSIVE rouge_l_loop(_, _, _, _, _, _)
rouge_l_loop(c_toks, refs, beta2, i, best, later_wins) ==
    IF i > Len(refs) THEN best
    ELSE LET r_toks == tokenize(refs[i])
             lcs == lcs_length(c_toks, r_toks)
             p == <<lcs, Len(c_toks)>>
             r == <<lcs, Len(r_toks)>>
             f1 == IF lcs = 0 THEN FZero
                   ELSE FDiv(FMul(<<1 + beta2, 1>>, FMul(p, r)),
                             FAdd(r, FMul(<<beta2, 1>>, p)))
             greater == IF f1[1] * best.f1[2] = best.f1[1] * f1[2]
                        THEN /\ lcs # 0
                             /\ <<p, r>> # <<best.precision, best.recall>>
                             /\ later_wins[i]
                        ELSE FGreater(f1, best.f1)
         IN IF r_toks = <<>>
            THEN rouge_l_loop(c_toks, refs, beta2, i + 1, best, later_wins)
            ELSE rouge_l_loop(c_toks, refs, beta2, i + 1,
                     IF greater
                     THEN [precision |-> p, recall |-> r, f1 |-> f1, lcs |-> lcs]
                     ELSE best,
                     later_wins)

NoRouge == [precision |-> FZero, recall |-> FZero, f1 |-> FZero, lcs |-> 0]

rouge_l(cand, refs, beta, later_wins) ==
    LET c_toks == tokenize(cand)
    IN IF c_toks = <<>> THEN NoRouge
       ELSE rouge_l_loop(c_toks, refs, beta * beta, 1, NoRouge, later_wins)

\* bleu, the loop over n: the precisions from order n on, smooth_m1 being
\* the smoothing counter
RECURSIVE precisions_from(_, _, _, _, _, _)
precisions_from(c_toks, refs_tok, n, max_n, smooth, smooth_m1) ==
    IF n > max_n THEN <<>>
    ELSE LET cand_ngrams == Counter(ngrams(c_toks, n))
             refs_ngrams == [k \in DOMAIN refs_tok |-> Counter(ngrams(refs_tok[k], n))]
             overlap == clip_counts_across_refs(cand_ngrams, refs_ngrams)
             denom == Max(1, SumValues(cand_ngrams))
             zero == smooth /\ overlap = 0
             p == IF zero THEN <<1, denom * (2 ^ smooth_m1)>> ELSE <<overlap, denom>>
         IN <<p>> \o precisions_from(c_toks, refs_tok, n + 1, max_n, smooth,
                                     IF zero THEN smooth_m1 + 1 ELSE smooth_m1)

RECURSIVE Product(_)
Product(ps) == IF ps = <<>> THEN FOne ELSE FMul(Head(ps), Product(Tail(ps)))

\* bleu with the default uniform weights: the score is
\* bp * exp(sum of log(p) / max_n), kept as bp and the max_n-th root of the
\* product of the precisions
bleu(cand, refs, max_n, smooth) ==
    LET c_toks == tokenize(cand)
        refs_tok == [k \in DOMAIN refs |-> tokenize(refs[k])]
        ref_lens == [k \in DOMAIN refs |-> Len(refs_tok[k])]
        bp == brevity_penalty(Len(c_toks), effective_ref_len(Len(c_toks), ref_lens))
        by_n == precisions_from(c_toks, refs_tok, 1, max_n, smooth, 1)
    IN IF c_toks = <<>>
       THEN [bleu |-> [bp |-> ExpZero, root |-> max_n, of |-> FZero],
             by_n |-> [n \in 1..max_n |-> FZero], bp |-> ExpZero]
       ELSE [bleu |-> [bp |-> bp, root |-> max_n, of |-> Product(by_n)],
             by_n |-> by_n, bp |-> bp]

\* squad_em
squad_em(cand, refs) ==
    IF \E k \in DOMAIN refs : normalize_for_em(cand) = normalize_for_em(refs[k])
    THEN FOne ELSE FZero

\* squad_token_f1, the loop over references from reference i on
RECURSIVE squad_token_f1_loop(_, _, _, _)
squad_token_f1_loop(cand, refs, i, best) ==
    IF i > Len(refs) THEN best
    ELSE LET ref == split(normalize_for_em(refs[i]))
             num == SumValues(Intersect(Counter(cand), Counter(ref)))
             p == <<num, Len(cand)>>
             s == <<num, Len(ref)>>
             f1 == IF num = 0 THEN FZero
                   ELSE FDiv(FMul(<<2, 1>>, FMul(p, s)), FAdd(p, s))
         IN IF ref = <<>>
            THEN squad_token_f1_loop(cand, refs, i + 1, best)
            ELSE squad_token_f1_loop(cand, refs, i + 1,
                     IF FGreater(f1, best) THEN f1 ELSE best)

squad_token_f1(cand, refs) ==
    LET c == split(normalize_for_em(cand))
    IN IF c = <<>> THEN FZero ELSE squad_token_f1_loop(c, refs, 1, FZero)

\* score_texts(candidate, references) with max_n = 4 and smooth = True: the
\* BLEU, ROUGE-L and SQuAD entries of the dict it returns
score_texts(later_wins) ==
    /\ metric_pc = "idle"
    /\ metric_pc' = "scored"
    /\ LET b == bleu(candidate, references, 4, TRUE)
           r == rouge_l(candidate, references, 1, later_wins)
       IN scores' = [BLEU |-> b.bleu, BLEU_by_n |-> b.by_n, BLEU_BP |-> b.bp,
                     ROUGE_L |-> r.f1, ROUGE_L_precision |-> r.precision,
                     ROUGE_L_recall |-> r.recall, ROUGE_L_lcs |-> r.lcs,
                     SQuAD_EM |-> squad_em(candidate, references),
                     SQuAD_token_F1 |-> squad_token_f1(candidate, references)]
    /\ UNCHANGED <<candidate, references>>
    /\ UNCHANGED <<dbVars, saveVars, pipeVars, regVars, retryVars, batchVars,
                   judgeVars, genVars>>

\* the inputs: a candidate with one reference, or a string scored against
\* itself
InitScore ==
    /\ InitDb /\ InitSaveHist /\ InitPipe /\ InitReg /\ InitRetry
    /\ InitBatch /\ InitJudge /\ InitGen
    /\ metric_pc = "idle"
    /\ scores = NoScores
    /\ \/ /\ candidate \in Texts(MaxTextLen)
          /\ references \in {<<r>> : r \in Texts(MaxTextLen)}
       \/ /\ candidate \in Texts(MaxSelfLen)
          /\ references = <<candidate>>

NextScore ==
    \E later_wins \in [DOMAIN references -> BOOLEAN] : score_texts(later_wins)

SpecScore == InitScore /\ [][NextScore]_vars

\* ------------------------------------------------------------------------
\* Properties of save_evaluation_to_db
\* ------------------------------------------------------------------------

\* C1: as long as every statement of every save has succeeded, the evals
\* table holds at most one row per (test_run_id, qa_pair_id), and that row is
\* the one written by the most recent save for that key.
C1_OverwriteNotAppend ==
    ~save_failed =>
        \A r \in RunIds, q \in QaIds :
            RowsOf(evals, r, q) =
                IF lastSaved[<<r, q>>] = NoEval THEN {}
                ELSE {EvalRow(lastSaved[<<r, q>>], r, q)}

\* a key saved twice without failure: the second save replaced the first row
C1_Witness ==
    /\ nSaves = 2
    /\ ~save_failed
    /\ Cardinality(evals) = 1
    /\ lastSave.eval_id = 2
    /\ RowsOf(evals, lastSave.run, lastSave.qa) = {EvalRow(2, lastSave.run, lastSave.qa)}

\* C2: a save in which some statement fails leaves evals and eval_chunks
\* exactly as they were before the call.
C2_AllOrNothing ==
    [][(nSaves' = nSaves + 1 /\ ~lastSave'.ok)
          => (evals' = evals /\ eval_chunks' = eval_chunks)]_vars

\* ------------------------------------------------------------------------
\* Properties of generate_and_evaluate
\* ------------------------------------------------------------------------
Stages(evs) == [i \in DOMAIN evs |-> evs[i].stage]

\* the current run's retrieval yielded zero contexts
ZeroContextRun ==
    \E i \in DOMAIN events :
        /\ events[i].stage = "contexts_retrieved"
        /\ events[i].status = "running"
        /\ events[i].data = 0

\* C5: a run whose retrieval yields zero contexts can only go on to emit
\* contexts_retrieved/failed and raise: it never reaches a later stage or
\* returns, once it has ended it has raised the zero-context error after a
\* failed event, and at every moment, while its emissions are awaited and
\* after it ended, evals and eval_chunks are as they were when it started.
C5_ZeroContextsNoWrite ==
    ZeroContextRun =>
        /\ pc \in {"no_contexts", "no_contexts_raise", "raised"}
        /\ <<evals, eval_chunks>> = db_at_call
        /\ pc = "no_contexts" => Len(events) = 2
        /\ pc = "no_contexts_raise" =>
               /\ Len(events) = 3
               /\ events[3] = Event("contexts_retrieved", "failed", 0, "no_contexts")
        /\ pc = "raised" =>
               /\ raised = "no_contexts"
               /\ Len(events) = 4
               /\ events[3].status = "failed"
               /\ events[4] = Event("failed", "failed", 0, "no_contexts")

\* a zero-context run for a key that already had a record with links has
\* emitted its failed event and raised
C5_Witness ==
    /\ ZeroContextRun
    /\ pc = "raised"
    /\ raised = "no_contexts"
    /\ Len(events) = 4
    /\ \E e \in RowsOf(evals, cur[1], cur[2]) : LinksOf(eval_chunks, e.id) # {}

\* C6: in a run whose retrieval yields zero contexts neither the generation
\* model nor the judge model is ever called.
C6_ZeroContextsNoGeneration ==
    ZeroContextRun => (llm_calls = 0 /\ judge_calls = 0)

\* a zero-context run that follows a run which did call both models
C6_Witness ==
    /\ ZeroContextRun
    /\ nSaves = 1
    /\ raised = "no_contexts"

\* st is a prefix of StageOrder, optionally followed by "failed"
PrefixThenFailed(st) ==
    \E n \in 0..Len(StageOrder) :
        \/ st = SubSeq(StageOrder, 1, n)
        \/ st = Append(SubSeq(StageOrder, 1, n), "failed")

\* C7 as stated: the stages emitted by a run form a prefix of StageOrder
\* optionally followed by failed, so no stage is emitted more than once.
C7_StrictlyForwardNoRepeat == PrefixThenFailed(Stages(events))

\* the event with which a zero-context run repeats contexts_retrieved
NoContextsEvent == Event("contexts_retrieved", "failed", 0, "no_contexts")

\* C7 amended: apart from the second contexts_retrieved event (status failed)
\* of a zero-context run, which comes directly after the first one and can
\* only be followed by the failed event, the stages emitted form a prefix of
\* StageOrder optionally followed by failed.
C7_ForwardExceptNoContexts ==
    /\ PrefixThenFailed(Stages(SelectSeq(events, LAMBDA e : e # NoContextsEvent)))
    /\ \A i \in DOMAIN events :
           events[i] = NoContextsEvent =>
               /\ i = 3
               /\ events[2] = Event("contexts_retrieved", "running", 0, NoError)
               /\ Len(events) <= 4
               /\ Len(events) = 4 =>
                      events[4] = Event("failed", "failed", 0, "no_contexts")

\* a zero-context run that has ended: contexts_retrieved emitted twice, then
\* failed
C7_Witness ==
    /\ pc = "raised"
    /\ events = <<Event("started", "running", 0, NoError),
                  Event("contexts_retrieved", "running", 0, NoError),
                  NoContextsEvent,
                  Event("failed", "failed", 0, "no_contexts")>>

\* C8: once a stage has raised, the last event is the failed event carrying
\* the error, the error is raised to the caller, and nothing of that run
\* happens afterwards: no model call, no store write, no event; a stage other
\* than the save stage raises without a store write.
C8_FailureAborts ==
    [][/\ pc' = "raised" =>
            /\ raised' # NoError
            /\ Len(events') > 0
            /\ events'[Len(events')] = Event("failed", "failed", 0, raised')
       /\ pc = "raised" => (pc' = "retrieve" /\ Len(events') = 1)
       /\ (pc' = "raised" /\ pc \notin {"save", "raised"})
            => UNCHANGED <<evals, eval_chunks>>]_vars

\* a run that failed in the judge stage, after generating an answer
C8_Witness ==
    /\ pc = "raised"
    /\ raised = "malformed_judge_response"
    /\ llm_calls = 1
    /\ judge_calls = 1

\* C9: when the saved/completed event has been emitted, exactly one evals row
\* exists for the key, its id is the eval_id of the event, and it has as many
\* eval_chunks links as contexts were retrieved.
C9_SavedRecordComplete ==
    \A i \in DOMAIN events :
        events[i].stage = "saved" =>
            /\ RowsOf(evals, cur[1], cur[2]) = {EvalRow(events[i].data, cur[1], cur[2])}
            /\ Cardinality(LinksOf(eval_chunks, events[i].data)) = Len(context_results)

\* a completed run with two contexts that replaced an earlier record
C9_Witness ==
    /\ pc = "returned"
    /\ Len(context_results) = 2
    /\ RowsOf(db_at_call[1], cur[1], cur[2]) # {}
    /\ result = 2

\* ------------------------------------------------------------------------
\* Properties of the duplicate-run protection
\* ------------------------------------------------------------------------
\* an accepted task for the key has not finished
InFlight(r, q) ==
    \E t \in DOMAIN tasks : tasks[t].run = r /\ tasks[t].qa = q /\ ~Done(t)

\* a task for the key has finished and its done-callback has run
HasCleaned(r, q) ==
    \E t \in DOMAIN tasks :
        tasks[t].run = r /\ tasks[t].qa = q /\ tasks[t].state = "cleaned"

ValidTopK == {k \in TopKInputs : EffectiveTopK(k) > 0}

\* C3: a trigger that arrives while a task accepted earlier for the same key
\* has not finished is rejected with 409, creates no task and leaves the
\* registry unchanged.
C3_SecondTriggerRejected ==
    [][\A r \in RunIds, q \in QaIds :
          InFlight(r, q) =>
              \A k \in ValidTopK, f \in FactoryOutcomes :
                  Trigger(r, q, k, f) => /\ lastResp'.status = 409
                                      /\ UNCHANGED <<active_evaluations, tasks>>]_vars

\* C4: the done-callback of a finished task, successful or failed, leaves no
\* entry for its key and no run without entries in the registry; a task whose
\* callback has run is registered nowhere; and a trigger for a key that has a
\* finished task and none in flight is never refused as a duplicate (409): it
\* is accepted (202) whenever the models of the run's config can be built,
\* and answered 500, with no task, when the model factory raises.
C4_EntryRemovedOnFinish ==
    [][/\ \A t \in DOMAIN tasks :
            (tasks[t].state = "done" /\ Cleanup(t)) =>
                /\ Registered(active_evaluations', tasks[t].run, tasks[t].qa) = {}
                /\ \A r \in DOMAIN active_evaluations' :
                       DOMAIN active_evaluations'[r] # {}
       /\ \A t \in DOMAIN tasks' :
            tasks'[t].state = "cleaned" =>
                \A r \in DOMAIN active_evaluations' :
                    \A q \in DOMAIN active_evaluations'[r] :
                        active_evaluations'[r][q] # t
       /\ \A r \in RunIds, q \in QaIds :
            (HasCleaned(r, q) /\ ~InFlight(r, q)) =>
                \A k \in ValidTopK :
                    /\ Trigger(r, q, k, "ok") => lastResp'.status = 202
                    /\ Trigger(r, q, k, "value_error") =>
                           /\ lastResp'.status = 500
                           /\ UNCHANGED <<tasks, active_evaluations>>]_vars

\* task 1 finished and was cleaned up, then a trigger for its key was accepted
\* as task 2 and registered
C4_Witness ==
    /\ Len(tasks) = 2
    /\ tasks[1].state = "cleaned"
    /\ tasks[2].run = tasks[1].run
    /\ tasks[2].qa = tasks[1].qa
    /\ tasks[2].state = "queued"
    /\ lastResp = [status |-> 202, task |-> 2]
    /\ Registered(active_evaluations, tasks[2].run, tasks[2].qa) = {2}

\* ------------------------------------------------------------------------
\* Properties of the retry transport
\* ------------------------------------------------------------------------
\* n consecutive rate-limit responses
RateLimited(n) == [i \in 1..n |-> Resp(429)]

StrictlyIncreasing(seq) == \A i \in 1..(Len(seq) - 1) : seq[i] < seq[i + 1]

\* C10: for every N from 1 to retries + 1, after N-1 rate-limit responses the
\* call is still trying and has slept the first N-1 entries of BACKOFF_TIMES
\* in order; when attempt N then succeeds, the call returns that response
\* after exactly N attempts and those N-1 sleeps, which are increasing.
C10_RateLimitedThenSuccess ==
    rpc # "idle" =>
        \A N \in 1..(max_retries(transport) + 1) :
            /\ outcomes = RateLimited(N - 1) =>
                   /\ rpc = "attempt"
                   /\ sleeps = SubSeq(BACKOFF_TIMES(transport), 1, N - 1)
            /\ outcomes = Append(RateLimited(N - 1), Resp(200)) =>
                   /\ rpc = "returned"
                   /\ response = Resp(200)
                   /\ Len(outcomes) = N
                   /\ sleeps = SubSeq(BACKOFF_TIMES(transport), 1, N - 1)
                   /\ StrictlyIncreasing(sleeps)

\* three rate-limit responses, then success on the fourth and last attempt
C10_Witness ==
    /\ rpc = "returned"
    /\ outcomes = <<Resp(429), Resp(429), Resp(429), Resp(200)>>
    /\ sleeps = <<5, 20, 70>>

\* the outcome is a response with status 429 or >= 500, or one of the
\* exceptions in excs
RetryableOutcome(o, excs) ==
    \/ (o.exc = "" /\ (o.status = 429 \/ o.status >= 500))
    \/ o.exc \in excs

Timeouts == {"ConnectTimeout", "ReadTimeout"}

TimeoutsOrConnectError == {"ConnectTimeout", "ReadTimeout", "ConnectError"}

Last(seq) == seq[Len(seq)]

\* C11: while every attempt so far has failed with a retryable outcome the
\* call has made at most retries + 1 attempts; it is still trying only
\* before attempt retries + 1, and once it has stopped it has made exactly
\* retries + 1 attempts, has slept every entry of BACKOFF_TIMES once in
\* order, and returns the last response or re-raises the last exception.
C11_ExhaustsThenPropagates ==
    (/\ rpc # "idle"
     /\ \A i \in 1..Len(outcomes) :
            RetryableOutcome(outcomes[i], TimeoutsOrConnectError)) =>
        /\ Len(outcomes) <= Len(BACKOFF_TIMES(transport)) + 1
        /\ rpc = "attempt" => Len(outcomes) <= Len(BACKOFF_TIMES(transport))
        /\ rpc # "attempt" =>
               /\ Len(outcomes) = max_retries(transport) + 1
               /\ sleeps = BACKOFF_TIMES(transport)
               /\ response = Last(outcomes)
               /\ rpc = IF Last(outcomes).exc = "" THEN "returned" ELSE "raised"

\* four read timeouts in a row: the fourth is re-raised after three sleeps
C11_Witness ==
    /\ rpc = "raised"
    /\ outcomes = [i \in 1..4 |-> Exc("ReadTimeout")]
    /\ sleeps = <<5, 20, 70>>
    /\ response = Exc("ReadTimeout")

\* C12: a first response whose status is neither 429 nor >= 500 is returned
\* unchanged after exactly one attempt and with no sleep.
C12_NonRetryableStatusReturned ==
    (/\ rpc # "idle"
     /\ Len(outcomes) >= 1
     /\ outcomes[1].exc = ""
     /\ outcomes[1].status # 429
     /\ outcomes[1].status < 500) =>
        /\ rpc = "returned"
        /\ response = outcomes[1]
        /\ Len(outcomes) = 1
        /\ sleeps = <<>>

\* a 404 on the first attempt is handed back at once
C12_Witness ==
    /\ rpc = "returned"
    /\ outcomes = <<Resp(404)>>
    /\ response = Resp(404)
    /\ sleeps = <<>>

\* every sleep follows an outcome that is retryable under excs, and an
\* exception outside excs ends the call at the attempt that raised it, with
\* no sleep after it
RetriesOnly(excs) ==
    rpc # "idle" =>
        /\ \A i \in 1..Len(sleeps) : RetryableOutcome(outcomes[i], excs)
        /\ \A i \in 1..Len(outcomes) :
               (outcomes[i].exc # "" /\ outcomes[i].exc \notin excs) =>
                   /\ i = Len(outcomes)
                   /\ rpc = "raised"
                   /\ response = outcomes[i]
                   /\ Len(sleeps) = i - 1

\* C13 as stated: the transport retries only on 429, >= 500, a connect
\* timeout or a read timeout; any other exception is re-raised by the
\* attempt that met it, with no sleep and no retry.
C13_RetriesOnlyTimeouts == RetriesOnly(Timeouts)

\* C13 amended: the transport retries only on 429, >= 500, a connect
\* timeout, a read timeout or a connection error; any other exception is
\* re-raised by the attempt that met it, with no sleep and no retry.
C13_RetriesOnlyTimeoutsOrConnectError == RetriesOnly(TimeoutsOrConnectError)

\* an exception of another kind on the first attempt: raised, nothing slept
C13_Witness ==
    /\ rpc = "raised"
    /\ outcomes = <<Exc("ValueError")>>
    /\ response = Exc("ValueError")
    /\ sleeps = <<>>

\* the call has ended and every attempt met outcome o
AllAttempts(o) ==
    /\ rpc \in {"returned", "raised"}
    /\ \A i \in 1..Len(outcomes) : outcomes[i] = o

\* C14: when every attempt returns 429, or every attempt raises a connect
\* timeout, the call ends after 6 attempts and sleeps of 2, 5, 15, 30 and 70
\* seconds, returning the final 429 or raising the timeout.
C14_SixAttemptsFiveSleeps ==
    \A o \in {Resp(429), Exc("ConnectTimeout")} :
        AllAttempts(o) =>
            /\ Len(outcomes) = 6
            /\ sleeps = <<2, 5, 15, 30, 70>>
            /\ response = o

\* C15: the three transports have the same schedule of three strictly
\* increasing entries 5, 20, 70 and a retry limit of 3, one retry per entry:
\* a call through any of them has retried at most 3 times and has slept the
\* first entries of 5, 20, 70, one per retry.
C15_SharedSchedule ==
    /\ \A tr \in Transports :
           /\ BACKOFF_TIMES(tr) = <<5, 20, 70>>
           /\ StrictlyIncreasing(BACKOFF_TIMES(tr))
           /\ max_retries(tr) = 3
           /\ max_retries(tr) = Len(BACKOFF_TIMES(tr))
    /\ rpc # "idle" =>
           /\ attempt <= 3
           /\ Len(outcomes) <= 4
           /\ sleeps = SubSeq(<<5, 20, 70>>, 1, attempt)

\* an embeddings call that used all three retries
C15_Witness ==
    /\ transport = "openai_embeddings"
    /\ rpc = "returned"
    /\ attempt = 3
    /\ sleeps = <<5, 20, 70>>
    /\ outcomes = <<Resp(503), Exc("ConnectError"), Resp(500), Resp(200)>>

\* ------------------------------------------------------------------------
\* Properties of batch_evaluate
\* ------------------------------------------------------------------------
\* the run that just ended emitted its final event: saved/completed or failed
RunEnded ==
    /\ events # <<>>
    /\ \/ Last(events).stage = "failed"
       \/ (Last(events).stage = "saved" /\ Last(events).status = "completed")

\* C16: the items of a batch run one after another in input order: a step
\* that emits an event or sends a request to the generation or judge model
\* belongs to the item the loop is at, item k is entered right after item
\* k-1, and an item is entered only after the run of the item before it has
\* emitted its completed or failed event.
C16_StrictlySequential ==
    [][/\ (events' # events \/ llm_calls' # llm_calls
                            \/ judge_calls' # judge_calls) =>
              /\ batch_pc' = "item"
              /\ batch_i' \in 1..Len(qa_pairs')
              /\ cur' = <<batch_run', qa_pairs'[batch_i']>>
       /\ batch_i' # batch_i =>
              \/ (batch_i' = 0 /\ batch_pc' = "loop")
              \/ /\ batch_i' = batch_i + 1
                 /\ events' = <<Event("started", "running", 0, NoError)>>
                 /\ batch_i >= 1 => RunEnded
                 /\ Len(batch_results) = batch_i]_vars

\* the second item of a batch is under way after the first one has ended
C16_Witness ==
    /\ batch_pc = "item"
    /\ batch_i = 2
    /\ pc = "judge"
    /\ Len(batch_results) = 1
    /\ llm_calls = 1

\* C17: batch_evaluate never raises; it returns only after the last item,
\* with one entry per input pair in input order; the entry appended for an
\* item is failed with the raised error message when the item's run raised
\* and success with the run's result otherwise, and after a failed item the
\* loop goes on.
C17_OneResultPerItem ==
    [][/\ batch_pc' # "raised"
       /\ batch_pc' = "returned" =>
              /\ Len(batch_results') = Len(qa_pairs')
              /\ \A k \in 1..Len(qa_pairs') :
                     /\ batch_results'[k].qa_pair_id = qa_pairs'[k]
                     /\ batch_results'[k].status \in {"success", "failed"}
       /\ (batch_pc = "item" /\ batch_pc' # "item") =>
              /\ batch_pc' = "loop"
              /\ Len(batch_results') = batch_i
              /\ pc = "raised" =>
                     batch_results'[batch_i] =
                         [qa_pair_id |-> qa_pairs[batch_i], status |-> "failed",
                          result |-> NoEval, error |-> raised]
              /\ pc = "returned" =>
                     batch_results'[batch_i] =
                         [qa_pair_id |-> qa_pairs[batch_i], status |-> "success",
                          result |-> result, error |-> NoError]
       /\ (batch_pc = "loop" /\ batch_i < Len(qa_pairs)) =>
              batch_pc' \in {"loop", "item"}]_vars

\* a returned batch whose first item failed and whose second item succeeded
C17_Witness ==
    /\ batch_pc = "returned"
    /\ Len(batch_results) = 2
    /\ batch_results[1].status = "failed"
    /\ batch_results[1].error = "llm_error"
    /\ batch_results[2].status = "success"
    /\ batch_results[2].result # NoEval
    /\ \E row \in evals : row.id = batch_results[2].result

\* ------------------------------------------------------------------------
\* Properties of the progress callback and of the judge request
\* ------------------------------------------------------------------------
\* the errors the stages themselves can raise
StageErrors == {"embed_error", "search_error", "no_contexts",
                "missing_placeholder", "llm_error", "no_api_key", "judge_error",
                "malformed_judge_response", "db_error"}

\* a step of generate_and_evaluate whose callback ends as cb changes the run
\* exactly as the same step with a callback that returns: same next stage,
\* same events, same stored rows, same result or error
SameAsReturning(cb) ==
    /\ \A r \in RunIds, q \in QaIds :
           CallGenerateAndEvaluate(r, q, cb) => CallGenerateAndEvaluate(r, q, "ok")
    /\ \A outcome \in RetrieveOutcomes, results \in SmallSearchResultSeqs :
           RetrieveStage(outcome, results, cb) => RetrieveStage(outcome, results, "ok")
    /\ NoContextsStage(cb) => NoContextsStage("ok")
    /\ NoContextsRaise(cb) => NoContextsRaise("ok")
    /\ \A template \in PromptTemplates, outcome \in GenerateOutcomes :
           GenerateStage(template, outcome, cb) => GenerateStage(template, outcome, "ok")
    /\ LexicalStage(cb) => LexicalStage("ok")
    /\ \A outcome \in JudgeOutcomes :
           JudgeStage(outcome, cb) => JudgeStage(outcome, "ok")
    /\ \A failAt \in 0..(2 + MaxChunks) :
           SaveStage(failAt, cb) => SaveStage(failAt, "ok")

\* C18 as stated: whatever the callback raises, at any stage, the step is
\* the step of a run whose callback returns.
C18_NoCallbackExceptionPropagates ==
    [][\A cb \in CallbackOutcomes : SameAsReturning(cb)]_vars

\* C18 amended: an exception deriving from Exception that the callback
\* raises, at any stage, never propagates: the step changes the run exactly
\* as with a callback that returns. A run in which the callback raised only
\* such exceptions returns only after all six stages with its row stored,
\* and the error it raises is the error of the failing stage, carried by the
\* failed event. (An exception that is not an Exception, such as
\* asyncio.CancelledError, leaves _emit_progress and ends the run.)
C18_CallbackFailureIgnored ==
    [][/\ SameAsReturning("raises")
       /\ pc' = "returned" =>
               /\ [i \in 1..Len(events') |-> events'[i].stage] = StageOrder
               /\ result' # NoEval
               /\ RowsOf(evals', cur'[1], cur'[2]) =
                      {EvalRow(result', cur'[1], cur'[2])}
       /\ (pc' = "raised" /\ raised' # CallbackError("raises_base")) =>
               /\ raised' \in StageErrors
               /\ Last(events') = Event("failed", "failed", 0, raised')]_vars

\* a run whose callback raised has gone through every stage and returned
C18_Witness ==
    /\ cb_failed
    /\ pc = "returned"
    /\ Len(events) = 6
    /\ result # NoEval
    /\ EvalRow(result, cur[1], cur[2]) \in evals
    /\ <<result, "c1">> \in eval_chunks

\* the run has handed over its lexical_metrics_calculated event
LexicalDone ==
    \E i \in 1..Len(events) : events[i].stage = "lexical_metrics_calculated"

\* the run is past its judge stage
PastJudgeStage == LexicalDone /\ pc \in {"save", "returned", "raised"}

\* an exception of the create call for a response of the wrong structure
\* fails the run after that single call, with the stored rows as they were
\* when the run started
MalformedFailsRun ==
    raised = "malformed_judge_response" =>
        /\ pc = "raised"
        /\ judge_calls = 1
        /\ Last(events) = Event("failed", "failed", 0, "malformed_judge_response")
        /\ <<evals, eval_chunks>> = db_at_call

SameFraction(x, y) == x[1] * y[2] = y[1] * x[2]

\* the overall value of m is the mean of its three scores
OverallIsMean(m) ==
    /\ {m.answer_relevance, m.context_relevance, m.groundedness} \subseteq 0..3
    /\ SameFraction(m.llm_judged_overall,
                    <<m.answer_relevance + m.context_relevance + m.groundedness, 3>>)

\* C19: for every judge response, the llm_judged_overall written to the
\* row and the one returned to the caller equal the arithmetic mean of the
\* evaluation's three numeric scores, each in 0..3.
C19_OverallIsMean ==
    /\ judge_pc \in {"saved", "returned"} => OverallIsMean(stored_metrics)
    /\ judge_pc = "returned" => OverallIsMean(returned_metrics)

\* ------------------------------------------------------------------------
\* Properties of generate_answer
\* ------------------------------------------------------------------------
\* the names the template of a call references once it is normalized
Referenced(t) == FormatNames(normalized_template(EffectiveTemplate(t)))

\* C21: a call whose template references no contexts placeholder
\* ({contexts} or {chunks}) or no query placeholder ({query} or {question})
\* raises an error naming the missing placeholder and sends nothing to the
\* generation model; a call whose template references a spelling of each,
\* and no unknown name, sends the rendered prompt.
C21_MissingPlaceholderFailsFast ==
    gen_pc # "idle" =>
        /\ (\/ Referenced(prompt_template) \cap {"contexts", "chunks"} = {}
            \/ Referenced(prompt_template) \cap {"query", "question"} = {})
           => /\ gen_pc = "raised"
              /\ gen_error \in TemplateValues
              /\ gen_error \notin Referenced(prompt_template)
              /\ sent_prompt = NoPrompt
        /\ (/\ Referenced(prompt_template) \cap {"contexts", "chunks"} # {}
            /\ Referenced(prompt_template) \cap {"query", "question"} # {}
            /\ Referenced(prompt_template) \subseteq TemplateValues)
           => sent_prompt = {"contexts_text", "query"}

\* ------------------------------------------------------------------------
\* Properties of the trigger's top_k validation
\* ------------------------------------------------------------------------
\* C22: a trigger that requests a top_k of zero or less is rejected: it
\* creates and registers no task, and when its run and QA pair exist the
\* answer is 400.
C22_NonPositiveTopKRejected ==
    [][\A r \in RunIds \cup {"r0"}, q \in QaIds \cup ForeignQaIds \cup {"q0"},
          k \in TopKInputs, f \in FactoryOutcomes :
           (k # None /\ k[1] <= 0 /\ Trigger(r, q, k, f)) =>
               /\ lastResp'.status \in {400, 404}
               /\ (r \in test_runs /\ q \in question_answer_pairs)
                      => lastResp'.status = 400
               /\ UNCHANGED <<tasks, active_evaluations>>]_vars

\* ------------------------------------------------------------------------
\* Properties of the store's foreign keys
\* ------------------------------------------------------------------------
\* C24: after any sequence of saves, overwrites and deletions of QA pairs
\* and test runs, every evals row references an existing test run and an
\* existing QA pair, and every eval_chunks row references an existing evals
\* row.
C24_NoDanglingReference ==
    /\ \A e \in evals : /\ e.test_run_id \in test_runs
                        /\ e.qa_pair_id \in question_answer_pairs
    /\ \A l \in eval_chunks : \E e \in evals : e.id = l[1]

\* a QA pair whose record had been saved was deleted, and another record
\* with its chunk links is still stored
C24_Witness ==
    /\ ~save_failed
    /\ \E k \in Keys : /\ lastSaved[k] # NoEval
                       /\ k[2] \notin question_answer_pairs
                       /\ \A e \in evals : e.id # lastSaved[k]
    /\ \E e \in evals : LinksOf(eval_chunks, e.id) # {}

\* ------------------------------------------------------------------------
\* Frame of save_evaluation_to_db
\* ------------------------------------------------------------------------
\* the eval_chunks rows of the evals rows of key k
KeyLinks(ev, ec, k) == {l \in ec : \E e \in RowsOf(ev, k[1], k[2]) : e.id = l[1]}

\* C28: a call of save_evaluation_to_db for key (r, q), successful or not,
\* leaves the evals rows and the eval_chunks rows of every other key as they
\* were.
C28_OtherKeysUntouched ==
    [][nSaves' # nSaves =>
           \A k \in Keys :
               k # <<lastSave'.run, lastSave'.qa>> =>
                   /\ RowsOf(evals', k[1], k[2]) = RowsOf(evals, k[1], k[2])
                   /\ KeyLinks(evals', eval_chunks', k) = KeyLinks(evals, eval_chunks, k)]_vars

\* a save that failed, next to the stored record and links of another key
C28_Witness ==
    /\ nSaves >= 2
    /\ ~lastSave.ok
    /\ \E k \in Keys : /\ k # <<lastSave.run, lastSave.qa>>
                       /\ RowsOf(evals, k[1], k[2]) # {}
                       /\ KeyLinks(evals, eval_chunks, k) # {}

\* ------------------------------------------------------------------------
\* The single attempt counter of the retry transport
\* ------------------------------------------------------------------------
\* C27: retryable statuses and retryable exceptions advance the same
\* counter: the sleeps of a call are the first entries of BACKOFF_TIMES in
\* order, the k-th sleep follows the k-th failed attempt whatever mix of
\* statuses and exceptions came before, the counter equals the number of
\* sleeps, and the call makes at most one attempt more than the schedule has
\* entries.
C27_OneCounterOneSchedule ==
    rpc # "idle" =>
        /\ Len(sleeps) <= Len(BACKOFF_TIMES(transport))
        /\ sleeps = SubSeq(BACKOFF_TIMES(transport), 1, Len(sleeps))
        /\ attempt = Len(sleeps)
        /\ Len(outcomes) = IF rpc = "attempt" THEN Len(sleeps) ELSE Len(sleeps) + 1
        /\ Len(outcomes) <= Len(BACKOFF_TIMES(transport)) + 1
        /\ \A k \in 1..Len(sleeps) :
               RetryableOutcome(outcomes[k], TimeoutsOrConnectError)

\* a read timeout, then a 429, then a 503: the third sleep is the third
\* entry of the schedule
C27_Witness ==
    /\ rpc = "attempt"
    /\ outcomes = <<Exc("ReadTimeout"), Resp(429), Resp(503)>>
    /\ sleeps = <<5, 20, 70>>
    /\ attempt = 3

\* ------------------------------------------------------------------------
\* The registry entry of a task in flight
\* ------------------------------------------------------------------------
\* C26: in every reachable state a task that was accepted and has not
\* finished is the task registered under its (test_run_id, qa_pair_id), and
\* no two unfinished tasks have the same key.
C26_InFlightTaskRegistered ==
    /\ \A t \in DOMAIN tasks :
           ~Done(t) =>
               Registered(active_evaluations, tasks[t].run, tasks[t].qa) = {t}
    /\ \A t, u \in DOMAIN tasks :
           (/\ t # u
            /\ tasks[t].run = tasks[u].run
            /\ tasks[t].qa = tasks[u].qa) => (Done(t) \/ Done(u))

\* ------------------------------------------------------------------------
\* Termination of an accepted evaluation task
\* ------------------------------------------------------------------------
\* task t has ended, its done-callback has run and the registry does not
\* hold it
Terminated(t) ==
    /\ t \in DOMAIN tasks
    /\ tasks[t].state = "cleaned"
    /\ t \notin Registered(active_evaluations, tasks[t].run, tasks[t].qa)

ExpIsOne(x) == ~x.zero /\ x.exponent[1] = 0
BleuIsOne(x) == ExpIsOne(x.bp) /\ x.of[1] = x.of[2]

\* C25: a string scored against itself has SQuAD_EM = 1.0, ROUGE_L = 1.0,
\* BLEU = 1.0, brevity penalty 1 and each of the four n-gram precisions
\* equal to 1.
C25_SelfScoreIsPerfect ==
    (metric_pc = "scored" /\ references = <<candidate>>) =>
        /\ scores.SQuAD_EM = FOne
        /\ SameFraction(scores.ROUGE_L, FOne)
        /\ BleuIsOne(scores.BLEU)
        /\ ExpIsOne(scores.BLEU_BP)
        /\ \A n \in 1..4 : SameFraction(scores.BLEU_by_n[n], FOne)

\* the longest-common-subsequence length by the two-dimensional recurrence
RECURSIVE LCS(_, _)
LCS(a, b) ==
    IF a = <<>> \/ b = <<>> THEN 0
    ELSE IF Last(a) = Last(b)
         THEN 1 + LCS(SubSeq(a, 1, Len(a) - 1), SubSeq(b, 1, Len(b) - 1))
         ELSE Max(LCS(SubSeq(a, 1, Len(a) - 1), b), LCS(a, SubSeq(b, 1, Len(b) - 1)))

\* C29: for the tokens a of the candidate and b of the reference,
\* _lcs_length(a, b) is the length given by the two-dimensional recurrence
\* and equals _lcs_length(b, a); scoring the reference against the candidate
\* gives the recall as precision, the precision as recall and the same F1.
C29_LcsSymmetric ==
    (metric_pc = "scored" /\ Len(references) = 1) =>
        LET a == tokenize(candidate)
            b == tokenize(references[1])
            swapped == rouge_l(references[1], <<candidate>>, 1, <<FALSE>>)
        IN /\ lcs_length(a, b) = LCS(a, b)
           /\ lcs_length(b, a) = lcs_length(a, b)
           /\ scores.ROUGE_L_lcs = IF a = <<>> \/ b = <<>> THEN 0 ELSE LCS(a, b)
           /\ SameFraction(swapped.precision, scores.ROUGE_L_recall)
           /\ SameFraction(swapped.recall, scores.ROUGE_L_precision)
           /\ SameFraction(swapped.f1, scores.ROUGE_L)
           /\ swapped.lcs = scores.ROUGE_L_lcs

\* a candidate and a longer reference whose common subsequence is shorter
\* than both
C29_Witness ==
    /\ metric_pc = "scored"
    /\ Len(references) = 1
    /\ Len(tokenize(candidate)) < Len(tokenize(references[1]))
    /\ scores.ROUGE_L_lcs >= 1
    /\ scores.ROUGE_L_lcs < Len(tokenize(candidate))
    /\ ~SameFraction(scores.ROUGE_L_precision, scores.ROUGE_L_recall)

\* C30: whenever SQuAD_EM is 1.0, SQuAD_token_F1 is 1.0.
C30_ExactMatchImpliesFullF1 ==
    (metric_pc = "scored" /\ scores.SQuAD_EM = FOne) =>
        SameFraction(scores.SQuAD_token_F1, FOne)

====
